---- MODULE Spec2Model ----
(***************************************************************************)
(* A model of evtdis: the Publisher registry (Publisher.py), the Event     *)
(* ordering used by priority queues (Event.py) and the Dispatcher actor    *)
(* built on both.                                                          *)
(*                                                                         *)
(* Part 1 models Publisher.py statement by statement: every public method  *)
(* is a call made by one of several client threads, split at the points    *)
(* where another thread can be scheduled (lock acquisition, the reads and  *)
(* the write of the critical section, lock release, the raise/return       *)
(* after the with-block).                                                  *)
(***************************************************************************)
EXTENDS Integers, Sequences, FiniteSets, TLC

(***************************************************************************)
(* Universe of the Publisher part.                                         *)
(***************************************************************************)
Threads == {"t1", "t2"}
NoThread == "none"
EventTypes == {"One", "Two"}
Callbacks == {"cbA", "cbB"}
\* An object for which callable(call) is False.
NotCallable == "notCallable"
CallArgs == Callbacks \cup {NotCallable}
\* Parameter values carried by a published event instance.
Payloads == {"p"}
NoValue == "-"

\* The most calls one client thread makes in a run.
MaxCalls == 3

Ops == {"registerEvent", "unregisterEvent", "subscribe", "unsubscribe",
        "publish", "subscribers", "eventTypes"}

VARIABLES
    \* ---- Part 1: one Publisher and its client threads
    subs,       \* Publisher._subscribers: event type -> list of callbacks
    lockOwner,  \* Publisher._lock (RLock): owning thread, or NoThread
    lockCount,  \* Publisher._lock: recursion level
    th,         \* per client thread: the call in progress and its locals
    ncalls,     \* per client thread: calls begun so far
    ghost,      \* specification state: type -> callbacks in order of the
                \* successful subscribe calls, for the types whose last
                \* successful (un)registration call was a registerEvent
    \* ---- Part 2: the dispatchers
    dstate,     \* per dispatcher: lifecycle state
    wpc,        \* per dispatcher: position of its worker thread
    queue,      \* per dispatcher: its priority queue (a binary heap)
    cur,        \* per dispatcher: the item its worker has dequeued
    outSubs,    \* per dispatcher: registry of its Output Publisher
    idleOn,     \* per dispatcher: idle processing enabled
    joinSt,     \* per dispatcher: the client's join() call
    exec,       \* per dispatcher: record of the executions of its callbacks
                \* and internal events, each with the executing thread
    hist,       \* per dispatcher: counters of the run (items enqueued,
                \* deliveries, triggerExit calls, Idle events)
    recording,  \* whether the run keeps exec and hist (a bounded run) or
                \* is an unbounded stream of deliveries
    res,        \* per dispatcher: the last call of the client that raised
    \* ---- Part 3: a PriorityQueue of Events on its own
    pq,         \* PriorityQueue.queue: the heap list
    got,        \* the events q.get() has returned, in order
    \* ---- Part 4: calls made by callbacks
    stack,      \* per client thread: the calls in progress inside the
                \* callbacks of its publish, innermost last
    nnest,      \* per client thread: calls begun by callbacks so far
    \* ---- Part 5: event types and instances
    instances,  \* EventMeta._instances: full name -> declarations
    synchronize,\* EventMeta._synchronize (Lock): holding thread, or NoThread
    defn,       \* per client thread: its EventType call in progress
    defined,    \* the EventType calls that have ended, in order
    inst,       \* the construction of an instance in progress, or the last
    cmp,        \* the last comparison of instances and its results
    \* ---- Part 6: internal events of a dispatcher
    intSubs,    \* per dispatcher: its internal table, type -> callbacks
    itrig,      \* per dispatcher: position of triggerInternalEvents
    \* ---- Part 7: two Publishers
    plock,      \* per Publisher: owner and recursion level of its RLock
    pstack,     \* per thread: its publish calls in progress, innermost last
    npub,       \* per thread: publish calls its client code has made
    plast       \* per thread: the last publish of its client code that returned

pubVars == <<subs, lockOwner, lockCount, th, ncalls, ghost>>

(***************************************************************************)
(* Helpers on sequences (Python list semantics).                           *)
(***************************************************************************)
Range(s) == {s[i] : i \in 1..Len(s)}

\* x in list
Contains(s, x) == \E i \in 1..Len(s) : s[i] = x

NoDuplicates(s) == \A i, j \in 1..Len(s) : i # j => s[i] # s[j]

\* list.remove(x): removes the first occurrence of x.
RemoveFirst(s, x) ==
    LET i == CHOOSE k \in 1..Len(s) : s[k] = x /\ \A m \in 1..(k-1) : s[m] # x
    IN  SubSeq(s, 1, i-1) \o SubSeq(s, i+1, Len(s))

\* Function f with key k dropped from its domain (del d[k]).
DropKey(f, k) == [x \in (DOMAIN f) \ {k} |-> f[x]]

\* Function f with key k set to v (d[k] = v), extending the domain.
SetKey(f, k, v) == [x \in (DOMAIN f) \cup {k} |-> IF x = k THEN v ELSE f[x]]

(***************************************************************************)
(* Call frames.                                                            *)
(***************************************************************************)
IdleFrame ==
    [pc |-> "idle", op |-> NoValue, ty |-> NoValue, cb |-> NoValue,
     ev |-> NoValue, registered |-> FALSE, subscribed |-> FALSE,
     err |-> NoValue, idx |-> 0, live |-> TRUE, det |-> <<>>,
     start |-> <<>>, invoked |-> <<>>, ret |-> NoValue, result |-> NoValue,
     gsnap |-> <<>>, wrote |-> FALSE, nested |-> <<>>]

\* gsnap, wrote and nested are specification state: the value of `ghost`
\* when the call read the registry, whether the call has written the
\* registry, and the calls its callbacks have made, with their outcomes.
NewFrame(op, ty, cb, ev) ==
    [IdleFrame EXCEPT !.pc = "acquire", !.op = op, !.ty = ty, !.cb = cb,
                      !.ev = ev]

(***************************************************************************)
(* Publisher._lock: an RLock.  `with self._lock` lets a thread in when the *)
(* lock is free or already held by that same thread.                       *)
(***************************************************************************)
LockGuardBroken(t) == TRUE

\* A Lock in place of the RLock: its owner is not let in again.
LockGuardPlain(t) == lockOwner = NoThread

LockGuard(t) == lockOwner = NoThread \/ lockOwner = t

LockLeave ==
    /\ lockCount' = lockCount - 1
    /\ lockOwner' = IF lockCount - 1 = 0 THEN NoThread ELSE lockOwner

(***************************************************************************)
(* The outcome of a call, as decided by the statements after the with-     *)
(* block (or by the exception that left it).                               *)
(***************************************************************************)
Outcome(f) ==
    IF f.err # NoValue THEN f.err
    ELSE CASE f.op = "registerEvent" ->
                IF f.registered THEN "AlreadyRegistered" ELSE "ok"
           [] f.op = "unregisterEvent" ->
                IF ~f.registered THEN "NotRegistered" ELSE "ok"
           [] f.op = "subscribe" ->
                IF ~f.registered THEN "NotRegistered"
                ELSE IF f.subscribed THEN "AlreadySubscribed" ELSE "ok"
           [] f.op = "unsubscribe" ->
                IF ~f.registered THEN "NotRegistered"
                ELSE IF ~f.subscribed THEN "NotSubscribed" ELSE "ok"
           [] f.op = "publish" ->
                IF ~f.registered THEN "NotRegistered" ELSE "ok"
           [] f.op = "subscribers" ->
                IF ~f.registered THEN "NotRegistered" ELSE "ok"
           [] OTHER -> "ok"

\* The class of the exception a call with that outcome has raised: every
\* raise statement of the Publisher raises Exception; KeyError and
\* ValueError come from the dict and the list.
ExceptionClass(outcome) ==
    IF outcome \in {"KeyError", "ValueError", "CallbackError"} THEN outcome
    ELSE "Exception"

\* The specification state after a call with outcome "ok".
GhostAfter(g, f) ==
    IF Outcome(f) # "ok" THEN g
    ELSE CASE f.op = "registerEvent" -> SetKey(g, f.ty, <<>>)
           [] f.op = "unregisterEvent" -> DropKey(g, f.ty)
           [] f.op = "subscribe" ->
                IF f.ty \in DOMAIN g
                THEN [g EXCEPT ![f.ty] = Append(@, f.cb)] ELSE g
           [] f.op = "unsubscribe" ->
                IF f.ty \in DOMAIN g /\ Contains(g[f.ty], f.cb)
                THEN [g EXCEPT ![f.ty] = RemoveFirst(@, f.cb)] ELSE g
           [] OTHER -> g

(***************************************************************************)
(* A client thread begins a call.  subscribe and unsubscribe test          *)
(* callable(call) before they touch the lock.                              *)
(***************************************************************************)
Call(t, op, ty, cb, ev) ==
    /\ th[t].pc = "idle"
    /\ ncalls[t] < MaxCalls
    /\ ncalls' = [ncalls EXCEPT ![t] = @ + 1]
    /\ th' = [th EXCEPT ![t] =
                IF op \in {"subscribe", "unsubscribe"} /\ cb = NotCallable
                THEN [NewFrame(op, ty, cb, ev) EXCEPT !.pc = "exit",
                                                      !.err = "NotCallable"]
                ELSE NewFrame(op, ty, cb, ev)]
    /\ UNCHANGED <<subs, lockOwner, lockCount, ghost>>

CallAny(t) ==
    \/ \E ty \in EventTypes :
         \/ Call(t, "registerEvent", ty, NoValue, NoValue)
         \/ Call(t, "unregisterEvent", ty, NoValue, NoValue)
         \/ Call(t, "subscribers", ty, NoValue, NoValue)
         \/ \E cb \in CallArgs :
              \/ Call(t, "subscribe", ty, cb, NoValue)
              \/ Call(t, "unsubscribe", ty, cb, NoValue)
         \/ \E ev \in Payloads : Call(t, "publish", ty, NoValue, ev)
    \/ Call(t, "eventTypes", NoValue, NoValue, NoValue)

(***************************************************************************)
(* `with self._lock:` and the reads at the head of each critical section.  *)
(* A section that writes nothing and calls nobody ends here and releases   *)
(* the lock on its way out (pc "exit"); the others keep it (pc "mutate",   *)
(* pc "iter").                                                             *)
(***************************************************************************)
CheckFrame(f) ==
    LET reg == f.ty \in DOMAIN subs
    IN  CASE f.op \in {"registerEvent", "unregisterEvent"} ->
               [f EXCEPT !.registered = reg, !.pc = "mutate"]
          [] f.op \in {"subscribe", "unsubscribe"} ->
               \* `call in self._subscribers[eventType]` is evaluated whether
               \* or not the type is registered.
               IF reg
               THEN [f EXCEPT !.registered = TRUE,
                              !.subscribed = Contains(subs[f.ty], f.cb),
                              !.pc = "mutate"]
               ELSE [f EXCEPT !.registered = FALSE, !.err = "KeyError",
                              !.pc = "exit"]
          [] f.op = "publish" ->
               IF reg
               THEN [f EXCEPT !.registered = TRUE, !.idx = 0, !.live = TRUE,
                              !.start = subs[f.ty], !.pc = "iter"]
               ELSE [f EXCEPT !.registered = FALSE, !.pc = "exit"]
          [] f.op = "subscribers" ->
               IF reg
               THEN [f EXCEPT !.registered = TRUE, !.ret = subs[f.ty],
                              !.pc = "exit"]
               ELSE [f EXCEPT !.registered = FALSE, !.pc = "exit"]
          [] OTHER ->
               [f EXCEPT !.ret = DOMAIN subs, !.pc = "exit"]

Enter(t) ==
    LET f == [CheckFrame(th[t]) EXCEPT !.gsnap = ghost]
    IN  /\ th[t].pc = "acquire"
        /\ LockGuard(t)
        /\ th' = [th EXCEPT ![t] = f]
        /\ IF f.pc = "exit"
           THEN UNCHANGED <<lockOwner, lockCount>>
           ELSE /\ lockOwner' = t
                /\ lockCount' = lockCount + 1
        /\ UNCHANGED <<subs, ncalls, ghost>>

(***************************************************************************)
(* The write of each critical section, on the registry.                    *)
(***************************************************************************)
\* self._subscribers[eventType] = list()
RegisterWrite(s, ty) == SetKey(s, ty, <<>>)

UnregisterWriteClear(s, ty) == [s EXCEPT ![ty] = <<>>]

\* The whole registry is emptied.
UnregisterWriteAll(s, ty) == <<>>

\* del self._subscribers[eventType]
UnregisterWrite(s, ty) == DropKey(s, ty)

SubscribeWritePrepend(s, ty, cb) == [s EXCEPT ![ty] = <<cb>> \o @]

\* self._subscribers[eventType].append(call)
SubscribeWrite(s, ty, cb) == [s EXCEPT ![ty] = Append(@, cb)]

\* self._subscribers[eventType].remove(call)
UnsubscribeWrite(s, ty, cb) == [s EXCEPT ![ty] = RemoveFirst(@, cb)]

\* Whether the write statement of frame f executes (the `if` around it).
Writes(f) ==
    CASE f.op = "registerEvent" -> ~f.registered
      [] f.op = "unregisterEvent" -> f.registered
      [] f.op = "subscribe" -> f.registered /\ ~f.subscribed
      [] f.op = "unsubscribe" -> f.registered /\ f.subscribed
      [] OTHER -> FALSE

\* The exception the write statement raises on the registry s, if any.
WriteError(s, f) ==
    CASE f.op = "registerEvent" -> NoValue
      [] f.op = "unregisterEvent" ->
           IF f.ty \in DOMAIN s THEN NoValue ELSE "KeyError"
      [] f.op = "subscribe" ->
           IF f.ty \in DOMAIN s THEN NoValue ELSE "KeyError"
      [] f.op = "unsubscribe" ->
           IF f.ty \notin DOMAIN s THEN "KeyError"
           ELSE IF ~Contains(s[f.ty], f.cb) THEN "ValueError" ELSE NoValue
      [] OTHER -> NoValue

WriteResult(s, f) ==
    CASE f.op = "registerEvent" -> RegisterWrite(s, f.ty)
      [] f.op = "unregisterEvent" -> UnregisterWrite(s, f.ty)
      [] f.op = "subscribe" -> SubscribeWrite(s, f.ty, f.cb)
      [] f.op = "unsubscribe" -> UnsubscribeWrite(s, f.ty, f.cb)
      [] OTHER -> s

\* A publish loop that iterates the list object which `del` or a fresh
\* `list()` takes out of the registry keeps iterating that object.
Detach(frames, ty, old) ==
    [u \in DOMAIN frames |->
        IF frames[u].pc = "iter" /\ frames[u].ty = ty /\ frames[u].live
        THEN [frames[u] EXCEPT !.live = FALSE, !.det = old]
        ELSE frames[u]]

Mutate(t) ==
    LET f == th[t]
        e == WriteError(subs, f)
        replaces == f.op \in {"registerEvent", "unregisterEvent"}
                    /\ f.ty \in DOMAIN subs
        moved == [th EXCEPT ![t].pc = "exit",
                            ![t].wrote = Writes(f) /\ e = NoValue,
                            ![t].err = IF Writes(f) THEN e ELSE NoValue]
    IN  /\ f.pc = "mutate"
        /\ IF Writes(f) /\ e = NoValue
           THEN /\ subs' = WriteResult(subs, f)
                /\ th' = IF replaces THEN Detach(moved, f.ty, subs[f.ty])
                         ELSE moved
           ELSE /\ subs' = subs
                /\ th' = moved
        /\ ghost' = GhostAfter(ghost, [f EXCEPT !.err = IF Writes(f) THEN e
                                                        ELSE NoValue])
        /\ LockLeave
        /\ UNCHANGED ncalls

(***************************************************************************)
(* publish: `for subscriber in self._subscribers[type(event)]`, one        *)
(* iteration per step.  The list iterator keeps an index into the list     *)
(* object and stops when the index reaches the list's current length.      *)
(***************************************************************************)
\* The dispatcher method that Publisher.publish hands the whole event to.
InternalSink == "_publishInternalEvent"

InvokeArgExpanded(subscriber, ty, ev) ==
    [positional |-> FALSE, type |-> NoValue, params |-> ev]

\* What the subscriber is called with: the event itself for the sink
\* (subscriber(event)), its parameters as keyword arguments otherwise
\* (subscriber(**event): the callee sees no event type).
InvokeArg(subscriber, ty, ev) ==
    IF subscriber = InternalSink
    THEN [positional |-> TRUE, type |-> ty, params |-> ev]
    ELSE [positional |-> FALSE, type |-> NoValue, params |-> ev]

IterList(f) == IF f.live THEN subs[f.ty] ELSE f.det

Iter(t) ==
    LET f == th[t]
        l == IterList(f)
    IN  /\ f.pc = "iter"
        /\ IF f.idx < Len(l)
           THEN /\ th' = [th EXCEPT
                         ![t].idx = f.idx + 1,
                         ![t].invoked =
                             Append(f.invoked,
                                    [cb |-> l[f.idx + 1],
                                     arg |-> InvokeArg(l[f.idx + 1], f.ty, f.ev),
                                     on |-> t])]
                /\ UNCHANGED <<lockOwner, lockCount>>
           ELSE /\ th' = [th EXCEPT ![t].pc = "exit"]
                /\ LockLeave
        /\ UNCHANGED <<subs, ncalls, ghost>>

\* The callback raises and the lock stays with the thread.
IterRaiseHeld(t) ==
    LET f == th[t]
        l == IterList(f)
    IN  /\ f.pc = "iter"
        /\ f.idx < Len(l)
        /\ th' = [th EXCEPT
                    ![t].idx = f.idx + 1,
                    ![t].invoked =
                        Append(f.invoked,
                               [cb |-> l[f.idx + 1],
                                arg |-> InvokeArg(l[f.idx + 1], f.ty, f.ev),
                                on |-> t]),
                    ![t].err = "CallbackError",
                    ![t].pc = "exit"]
        /\ UNCHANGED <<subs, lockOwner, lockCount, ncalls, ghost>>

\* The subscriber that the loop invokes raises.  publish has no try: the
\* exception leaves the for loop and the with-block, whose __exit__
\* releases the lock, and reaches the caller of publish ("CallbackError"
\* stands for whatever the callback raised).
IterRaise(t) ==
    LET f == th[t]
        l == IterList(f)
    IN  /\ f.pc = "iter"
        /\ f.idx < Len(l)
        /\ th' = [th EXCEPT
                    ![t].idx = f.idx + 1,
                    ![t].invoked =
                        Append(f.invoked,
                               [cb |-> l[f.idx + 1],
                                arg |-> InvokeArg(l[f.idx + 1], f.ty, f.ev),
                                on |-> t]),
                    ![t].err = "CallbackError",
                    ![t].pc = "exit"]
        /\ LockLeave
        /\ UNCHANGED <<subs, ncalls, ghost>>

\* The statements after the with-block: raise or return.
Exit(t) ==
    /\ th[t].pc = "exit"
    /\ th' = [th EXCEPT ![t] = [IdleFrame EXCEPT !.op = th[t].op,
                                                 !.result = Outcome(th[t])]]
    /\ UNCHANGED <<subs, lockOwner, lockCount, ncalls, ghost>>

PubInit ==
    /\ subs = << >>
    /\ lockOwner = NoThread
    /\ lockCount = 0
    /\ th = [t \in Threads |-> IdleFrame]
    /\ ncalls = [t \in Threads |-> 0]
    /\ ghost = << >>

dispVars == <<dstate, wpc, queue, cur, outSubs, idleOn, joinSt, exec, hist,
              recording, res>>

qVars == <<pq, got>>

rVars == <<stack, nnest>>

eVars == <<instances, synchronize, defn, defined, inst, cmp>>

iVars == <<intSubs, itrig>>

tVars == <<plock, pstack, npub, plast>>

vars == <<pubVars, dispVars, qVars, rVars, eVars, iVars, tVars>>

(***************************************************************************)
(* Part 2.  Event ordering (Event.py) and the priority queue the events    *)
(* are put in (queue.PriorityQueue: heapq.heappush / heapq.heappop on a    *)
(* list, comparing items with Event.__lt__ only).                          *)
(***************************************************************************)
\* EventType(...): priority defaults to 10.
DefaultPriority == 10

\* Event.__lt__
EventLt(a, b) == a.priority < b.priority

\* The equality of dict, which Event.__eq__ overrides.
EventEqDict(a, b) == a = b

\* Event.__eq__
EventEq(a, b) == a.priority = b.priority

\* heapq._siftdown(heap, startpos, pos), positions counted from 0.
RECURSIVE SiftDown(_, _, _, _)
SiftDown(h, startpos, pos, newitem) ==
    IF pos > startpos
    THEN LET parentpos == (pos - 1) \div 2
             parent == h[parentpos + 1]
         IN  IF EventLt(newitem, parent)
             THEN SiftDown([h EXCEPT ![pos + 1] = parent], startpos,
                           parentpos, newitem)
             ELSE [h EXCEPT ![pos + 1] = newitem]
    ELSE [h EXCEPT ![pos + 1] = newitem]

\* The loop of heapq._siftup: moves the smaller child up until a leaf is
\* reached; yields the heap and the position of the hole.
RECURSIVE SiftUpLoop(_, _)
SiftUpLoop(h, pos) ==
    LET endpos == Len(h)
        childpos == 2 * pos + 1
        rightpos == childpos + 1
        pick == IF rightpos < endpos /\ ~EventLt(h[childpos + 1], h[rightpos + 1])
                THEN rightpos ELSE childpos
    IN  IF childpos < endpos
        THEN SiftUpLoop([h EXCEPT ![pos + 1] = h[pick + 1]], pick)
        ELSE <<h, pos>>

\* heapq._siftup(heap, pos)
SiftUp(h, pos) ==
    LET newitem == h[pos + 1]
        r == SiftUpLoop(h, pos)
    IN  SiftDown(r[1], pos, r[2], newitem)

\* heapq.heappush(heap, item)
HeapPush(h, item) == SiftDown(Append(h, item), 0, Len(h), item)

\* heapq.heappop(heap): <<item returned, heap left>>
HeapPop(h) ==
    LET lastelt == h[Len(h)]
        rest == SubSeq(h, 1, Len(h) - 1)
    IN  IF rest = <<>> THEN <<lastelt, <<>>>>
        ELSE <<rest[1], SiftUp([rest EXCEPT ![1] = lastelt], 0)>>

(***************************************************************************)
(* The dispatchers: a generator with two Input event types whose           *)
(* callbacks publish an Output event carrying the same parameters, and a   *)
(* target that subscribes to those Output events remotely.                 *)
(***************************************************************************)
Dispatchers == {"gen", "tgt"}
\* The thread of the client that starts, feeds, stops and joins them.
MainThread == "main"
\* The parameter value of the n-th event delivered to a dispatcher: each
\* delivery carries a value of its own.
ParamOf(n) == n

InputTypes(d) == IF d = "gen" THEN {"CmdOne", "CmdTwo"} ELSE {}
OutputTypes(d) == IF d = "gen" THEN {"OutOne", "OutTwo"} ELSE {}

\* The Output event the generator's callback for an Input event publishes.
OutputOf(ty) == IF ty = "CmdOne" THEN "OutOne" ELSE "OutTwo"

\* The priority each event type was declared with: the dispatchers' Input
\* and Output types name none and get the default, as does the reserved
\* Exit item; the five types of the queue of Part 3 name theirs.
PriorityOf(ty) ==
    CASE ty = "EventZero" -> 1
      [] ty = "EventOne" -> 5
      [] ty = "EventTwo" -> 7
      [] ty \in {"EventThree", "EventFour"} -> 0
      [] OTHER -> DefaultPriority

\* The callback a dispatcher has subscribed for an event type: the
\* generator's for its Input types, the target's for the generator's Output
\* types.
CallbackFor(d, ty) ==
    CASE d = "gen" /\ ty = "CmdOne" -> "cmdEventOneCB"
      [] d = "gen" /\ ty = "CmdTwo" -> "cmdEventTwoCB"
      [] d = "tgt" /\ ty = "OutOne" -> "receiveGeneratorOneCB"
      [] d = "tgt" /\ ty = "OutTwo" -> "receiveGeneratorTwoCB"
      [] OTHER -> NoValue

\* The internal events of the lifecycle.
Lifecycle == {"Running", "Idle", "Exiting"}

\* The most input events the client delivers to a dispatcher in a recorded
\* run, triggerExit calls in all, and Idle events per dispatcher in a
\* recorded run; the queue capacity that blocks the client in an unbounded
\* stream.
MaxDeliver == 2
MaxExits == 2
MaxIdle == 2
MaxQueue == 4

NoItem == [kind |-> "None", type |-> NoValue, params |-> NoValue,
           priority |-> 0, id |-> 0, pre |-> FALSE, via |-> NoValue]

\* id, pre and via are specification state: the item's enqueue number,
\* whether it was enqueued before any triggerExit call, and its producer.
ItemAt(h, d, kind, ty, params, via) ==
    [kind |-> kind, type |-> ty, params |-> params,
     priority |-> PriorityOf(ty),
     id |-> IF recording THEN h[d].nseq + 1 ELSE 0,
     pre |-> h[d].nexit = 0, via |-> via]

Item(d, kind, ty, params, via) == ItemAt(hist, d, kind, ty, params, via)

Entry(what, ty, params, on, id) ==
    [what |-> what, type |-> ty, params |-> params, on |-> on, id |-> id]

Record(log, e) == IF recording THEN Append(log, e) ELSE log

\* queue.put(item)
Put(q, item) == HeapPush(q, item)

\* No call of the client has raised.  started and pre are specification
\* state: whether start() had returned, and whether no triggerExit() had
\* been called, when the call was made.
NoResult == [op |-> NoValue, err |-> NoValue, started |-> FALSE, pre |-> FALSE]

Raised(d, op, err) ==
    [op |-> op, err |-> err, started |-> wpc[d] # "new",
     pre |-> hist[d].nexit = 0]

DInit ==
    /\ res = [d \in Dispatchers |-> NoResult]
    /\ dstate = [d \in Dispatchers |-> "Created"]
    /\ wpc = [d \in Dispatchers |-> "new"]
    /\ queue = [d \in Dispatchers |-> <<>>]
    /\ cur = [d \in Dispatchers |-> NoItem]
    /\ outSubs = [d \in Dispatchers |-> [ty \in OutputTypes(d) |-> <<>>]]
    /\ idleOn = [d \in Dispatchers |-> FALSE]
    /\ joinSt = [d \in Dispatchers |-> "none"]
    /\ exec = [d \in Dispatchers |-> <<>>]
    /\ hist = [d \in Dispatchers |->
                 [nseq |-> 0, ndeliv |-> 0, nexit |-> 0, nidle |-> 0,
                  sent |-> <<>>]]

(***************************************************************************)
(* Calls made by the client thread.                                        *)
(***************************************************************************)
\* start(): launches the worker thread.
Start(d) ==
    /\ wpc[d] = "new"
    /\ wpc' = [wpc EXCEPT ![d] = "launched"]
    /\ UNCHANGED <<dstate, queue, cur, outSubs, idleOn, joinSt, exec, hist,
                   recording, res>>

\* A second start() that launches the worker thread again.
StartAgainRelaunch(d) ==
    /\ wpc[d] # "new"
    /\ wpc' = [wpc EXCEPT ![d] = "launched"]
    /\ UNCHANGED <<dstate, queue, cur, outSubs, idleOn, joinSt, exec, hist,
                   recording, res>>

\* start() on a dispatcher already started: a lifecycle error.
StartAgain(d) ==
    /\ wpc[d] # "new"
    /\ res' = [res EXCEPT ![d] = Raised(d, "start", "AlreadyStarted")]
    /\ UNCHANGED <<dstate, wpc, queue, cur, outSubs, idleOn, joinSt, exec,
                   hist, recording>>

\* What subscribeToRemoteOutputEvent subscribes on the source's Output
\* Publisher: the subscribing dispatcher's sink, not its callback.
RemoteSubscriberDirect(b, ty) == [disp |-> b, name |-> CallbackFor(b, ty)]

RemoteSubscriber(b, ty) == [disp |-> b, name |-> InternalSink]

\* b.subscribeToRemoteOutputEvent(ty, a, callback): Publisher.subscribe on
\* a's Output Publisher.
SubscribeRemote(b, a, ty) ==
    /\ recording
    /\ a # b
    /\ ty \in DOMAIN outSubs[a]
    /\ ~Contains(outSubs[a][ty], RemoteSubscriber(b, ty))
    /\ outSubs' = [outSubs EXCEPT
                     ![a] = SubscribeWrite(@, ty, RemoteSubscriber(b, ty))]
    /\ UNCHANGED <<dstate, wpc, queue, cur, idleOn, joinSt, exec, hist,
                   recording, res>>

\* Subscribing a callback to the Idle internal event enables idle processing.
EnableIdle(d) ==
    /\ ~idleOn[d]
    /\ idleOn' = [idleOn EXCEPT ![d] = TRUE]
    /\ UNCHANGED <<dstate, wpc, queue, cur, outSubs, joinSt, exec, hist,
                   recording, res>>

\* deliverInputEvent running the subscribed callback in the caller's thread.
DeliverInline(d, ty, params) ==
    /\ recording
    /\ hist[d].ndeliv < MaxDeliver
    /\ dstate[d] = "Running"
    /\ params = ParamOf(hist[d].ndeliv + 1)
    /\ exec' = [exec EXCEPT
                  ![d] = Append(@, Entry(CallbackFor(d, ty), ty, params,
                                         MainThread, hist[d].nseq + 1))]
    /\ hist' = [hist EXCEPT
                  ![d].nseq = @ + 1, ![d].ndeliv = @ + 1,
                  ![d].sent = Append(@, [id |-> hist[d].nseq + 1,
                                         type |-> ty, params |-> params])]
    /\ UNCHANGED <<dstate, wpc, queue, cur, outSubs, idleOn, joinSt,
                   recording, res>>

\* deliverInputEvent(event): valid only while the dispatcher is Running.
\* hist.sent is specification state: the events delivered, in order.
Deliver(d, ty, params) ==
    /\ IF recording THEN hist[d].ndeliv < MaxDeliver
       ELSE Len(queue[d]) < MaxQueue
    /\ dstate[d] = "Running"
    /\ params = ParamOf(hist[d].ndeliv + 1)
    /\ queue' = [queue EXCEPT
                   ![d] = Put(@, Item(d, "Input", ty, params, "deliver"))]
    /\ hist' = IF recording
               THEN [hist EXCEPT
                       ![d].nseq = @ + 1, ![d].ndeliv = @ + 1,
                       ![d].sent = Append(@, [id |-> hist[d].nseq + 1,
                                              type |-> ty,
                                              params |-> params])]
               ELSE hist
    /\ UNCHANGED <<dstate, wpc, cur, outSubs, idleOn, joinSt, exec,
                   recording, res>>

\* deliverInputEvent(event) on a dispatcher that is not Running: a
\* lifecycle error, nothing enqueued.
DeliverRejected(d, ty) ==
    /\ dstate[d] # "Running"
    /\ res' = [res EXCEPT ![d] = Raised(d, "deliverInputEvent", "NotRunning")]
    /\ UNCHANGED <<dstate, wpc, queue, cur, outSubs, idleOn, joinSt, exec,
                   hist, recording>>

\* triggerExit(): enqueues the reserved Exit item.
TriggerExit(d) ==
    /\ hist["gen"].nexit + hist["tgt"].nexit < MaxExits
    /\ queue' = [queue EXCEPT
                   ![d] = Put(@, Item(d, "Exit", "Exit", NoValue, "exit"))]
    /\ hist' = [hist EXCEPT ![d].nseq = IF recording THEN @ + 1 ELSE @,
                            ![d].nexit = @ + 1]
    /\ UNCHANGED <<dstate, wpc, cur, outSubs, idleOn, joinSt, exec,
                   recording, res>>

\* join(): returns at once when the worker has terminated, waits otherwise.
Join(d) ==
    /\ wpc[d] # "new"
    /\ joinSt[d] = "none"
    /\ joinSt' = [joinSt EXCEPT
                    ![d] = IF wpc[d] = "done" THEN "returned" ELSE "waiting"]
    /\ UNCHANGED <<dstate, wpc, queue, cur, outSubs, idleOn, exec, hist,
                   recording, res>>

\* A join() that returns while the worker thread still runs.
JoinReturnNoWait(d) ==
    /\ joinSt[d] = "waiting"
    /\ joinSt' = [joinSt EXCEPT ![d] = "returned"]
    /\ UNCHANGED <<dstate, wpc, queue, cur, outSubs, idleOn, exec, hist,
                   recording, res>>

\* The waiting join() returns once the worker thread has terminated.
JoinReturn(d) ==
    /\ joinSt[d] = "waiting"
    /\ wpc[d] = "done"
    /\ joinSt' = [joinSt EXCEPT ![d] = "returned"]
    /\ UNCHANGED <<dstate, wpc, queue, cur, outSubs, idleOn, exec, hist,
                   recording, res>>

(***************************************************************************)
(* The worker thread of a dispatcher.                                      *)
(***************************************************************************)
\* The thread publishes Running internally and enters the main loop.
WRunning(d) ==
    /\ wpc[d] = "launched"
    /\ dstate' = [dstate EXCEPT ![d] = "Running"]
    /\ exec' = [exec EXCEPT
                  ![d] = Record(@, Entry("Running", "Running", NoValue, d, 0))]
    /\ wpc' = [wpc EXCEPT ![d] = "loop"]
    /\ UNCHANGED <<queue, cur, outSubs, idleOn, joinSt, hist, recording, res>>

\* queue.get(timeout) returns an item.
WGet(d) ==
    /\ wpc[d] = "loop"
    /\ queue[d] # <<>>
    /\ cur' = [cur EXCEPT ![d] = HeapPop(queue[d])[1]]
    /\ queue' = [queue EXCEPT ![d] = HeapPop(queue[d])[2]]
    /\ wpc' = [wpc EXCEPT ![d] = "process"]
    /\ UNCHANGED <<dstate, outSubs, idleOn, joinSt, exec, hist, recording, res>>

\* A worker that publishes Idle at every turn of the loop, items waiting
\* or not.
WIdleEveryTurn(d) ==
    /\ wpc[d] = "loop"
    /\ idleOn[d]
    /\ recording
    /\ hist[d].nidle < MaxIdle
    /\ exec' = [exec EXCEPT
                  ![d] = Record(@, Entry("Idle", "Idle", NoValue, d, 0))]
    /\ hist' = [hist EXCEPT ![d].nidle = @ + 1]
    /\ UNCHANGED <<dstate, wpc, queue, cur, outSubs, idleOn, joinSt,
                   recording, res>>

\* The wait timed out with the queue empty and idle processing enabled:
\* Idle is published internally and the wait goes on.
WIdle(d) ==
    /\ wpc[d] = "loop"
    /\ queue[d] = <<>>
    /\ idleOn[d]
    /\ recording
    /\ hist[d].nidle < MaxIdle
    /\ exec' = [exec EXCEPT
                  ![d] = Record(@, Entry("Idle", "Idle", NoValue, d, 0))]
    /\ hist' = [hist EXCEPT ![d].nidle = @ + 1]
    /\ UNCHANGED <<dstate, wpc, queue, cur, outSubs, idleOn, joinSt,
                   recording, res>>

\* Publisher.publish on the Output Publisher of dispatcher a, run by thread
\* `on`: each subscriber of the list in turn, from the i-th.  The sink of a
\* remote subscriber puts the event it is handed on its own dispatcher's
\* queue; any other subscriber is a callback and runs where it is called.
RECURSIVE Fanout(_, _, _, _, _, _)
Fanout(l, i, on, ty, params, st) ==
    IF i > Len(l) THEN st
    ELSE LET s == l[i]
             arg == InvokeArg(s.name, ty, params)
             b == s.disp
             next ==
               IF s.name = InternalSink
               THEN IF arg.positional
                    THEN [st EXCEPT
                            !.q[b] = Put(@, ItemAt(st.h, b, "Input", arg.type,
                                                   arg.params, "remote")),
                            !.h[b].nseq = IF recording THEN @ + 1 ELSE @]
                    ELSE st
               ELSE [st EXCEPT
                       !.ex[b] = Record(@, Entry(s.name, arg.type, arg.params,
                                                 on, 0))]
         IN  Fanout(l, i + 1, on, ty, params, next)

\* The dequeued item is processed: the Exit item publishes Exiting
\* internally and ends the loop; an Input item runs the callback subscribed
\* for its type with the event's parameters.  The generator's callback
\* publishes the matching Output event with the same parameters.
WProcess(d) ==
    LET it == cur[d]
        ran == [exec EXCEPT
                  ![d] = Record(@, Entry(CallbackFor(d, it.type), it.type,
                                         it.params, d, it.id))]
        out == OutputOf(it.type)
        st == IF it.type \in InputTypes(d) /\ out \in DOMAIN outSubs[d]
              THEN Fanout(outSubs[d][out], 1, d, out, it.params,
                          [q |-> queue, ex |-> ran, h |-> hist])
              ELSE [q |-> queue, ex |-> ran, h |-> hist]
    IN  /\ wpc[d] = "process"
        /\ cur' = [cur EXCEPT ![d] = NoItem]
        /\ IF it.kind = "Exit"
           THEN /\ dstate' = [dstate EXCEPT ![d] = "Exiting"]
                /\ exec' = [exec EXCEPT
                              ![d] = Record(@, Entry("Exiting", "Exiting",
                                                     NoValue, d, 0))]
                /\ wpc' = [wpc EXCEPT ![d] = "exiting"]
                /\ UNCHANGED <<queue, hist>>
           ELSE /\ queue' = st.q
                /\ exec' = st.ex
                /\ hist' = st.h
                /\ wpc' = [wpc EXCEPT ![d] = "loop"]
                /\ UNCHANGED dstate
        /\ UNCHANGED <<outSubs, idleOn, joinSt, recording, res>>

\* The loop has ended: the thread terminates.
WTerminate(d) ==
    /\ wpc[d] = "exiting"
    /\ dstate' = [dstate EXCEPT ![d] = "Terminated"]
    /\ wpc' = [wpc EXCEPT ![d] = "done"]
    /\ UNCHANGED <<queue, cur, outSubs, idleOn, joinSt, exec, hist,
                   recording, res>>

(***************************************************************************)
(* Part 3.  A PriorityQueue of Events on its own: q.put(item=Type(...))    *)
(* and q.get(block=False) with the event types of the priority queue test. *)
(***************************************************************************)
QTypes == {"EventZero", "EventOne", "EventTwo", "EventThree", "EventFour"}

\* The most events put in the queue.
MaxPuts == 6

\* id is specification state: the number of the put.
QEvent(ty, n) == [type |-> ty, priority |-> PriorityOf(ty), id |-> n]

QInit ==
    /\ pq = <<>>
    /\ got = <<>>

\* q.put(item=ty(...))
QPut(ty) ==
    /\ Len(pq) + Len(got) < MaxPuts
    /\ pq' = HeapPush(pq, QEvent(ty, Len(pq) + Len(got) + 1))
    /\ UNCHANGED got

\* q.get(block=False) on a non-empty queue
QGet ==
    /\ pq # <<>>
    /\ got' = Append(got, HeapPop(pq)[1])
    /\ pq' = HeapPop(pq)[2]

(***************************************************************************)
(* Part 4.  Calls made by callbacks.  A callback that publish has invoked  *)
(* runs, in the publishing thread, until the loop takes its next turn;     *)
(* while it runs it may call the Publisher, and the call it makes is a     *)
(* frame on that thread's stack, which goes through the same statements    *)
(* as a client's call.  The loop takes its next turn when the callback     *)
(* has returned: when no frame is above it.                                *)
(***************************************************************************)
\* The deepest nesting of calls inside callbacks, and the most calls the
\* callbacks of one thread make in a run.
MaxDepth == 1
MaxNested == 2

RInit ==
    /\ stack = [t \in Threads |-> <<>>]
    /\ nnest = [t \in Threads |-> 0]

\* The innermost call in progress of a thread.
Top(t) == IF stack[t] = <<>> THEN th[t] ELSE stack[t][Len(stack[t])]

SetTop(t, f) == [stack EXCEPT ![t][Len(stack[t])] = f]

\* Detach on the frames of the stacks.
DetachStacks(st, ty, old) == [u \in DOMAIN st |-> Detach(st[u], ty, old)]

\* The callback running in the innermost publish loop of thread t calls
\* the Publisher.
NCall(t, op, ty, cb, ev) ==
    /\ Top(t).pc = "iter"
    /\ Top(t).idx >= 1
    /\ Len(stack[t]) < MaxDepth
    /\ nnest[t] < MaxNested
    /\ nnest' = [nnest EXCEPT ![t] = @ + 1]
    /\ stack' = [stack EXCEPT ![t] =
                   Append(@, IF op \in {"subscribe", "unsubscribe"}
                                 /\ cb = NotCallable
                             THEN [NewFrame(op, ty, cb, ev) EXCEPT
                                     !.pc = "exit", !.err = "NotCallable"]
                             ELSE NewFrame(op, ty, cb, ev))]
    /\ UNCHANGED pubVars

NCallAny(t) ==
    \E ty \in EventTypes :
        \/ NCall(t, "registerEvent", ty, NoValue, NoValue)
        \/ NCall(t, "unregisterEvent", ty, NoValue, NoValue)
        \/ \E cb \in Callbacks :
             \/ NCall(t, "subscribe", ty, cb, NoValue)
             \/ NCall(t, "unsubscribe", ty, cb, NoValue)
        \/ \E ev \in Payloads : NCall(t, "publish", ty, NoValue, ev)

\* `with self._lock:` and the reads, in the call made by a callback.
NEnter(t) ==
    LET f == [CheckFrame(Top(t)) EXCEPT !.gsnap = ghost]
    IN  /\ stack[t] # <<>>
        /\ Top(t).pc = "acquire"
        /\ LockGuard(t)
        /\ stack' = SetTop(t, f)
        /\ IF f.pc = "exit"
           THEN UNCHANGED <<lockOwner, lockCount>>
           ELSE /\ lockOwner' = t
                /\ lockCount' = lockCount + 1
        /\ UNCHANGED <<subs, th, ncalls, ghost, nnest>>

\* The write of the critical section, in the call made by a callback.
NMutate(t) ==
    LET f == Top(t)
        e == WriteError(subs, f)
        replaces == f.op \in {"registerEvent", "unregisterEvent"}
                    /\ f.ty \in DOMAIN subs
        moved == SetTop(t, [f EXCEPT !.pc = "exit",
                                     !.wrote = Writes(f) /\ e = NoValue,
                                     !.err = IF Writes(f) THEN e ELSE NoValue])
    IN  /\ stack[t] # <<>>
        /\ f.pc = "mutate"
        /\ IF Writes(f) /\ e = NoValue
           THEN /\ subs' = WriteResult(subs, f)
                /\ IF replaces
                   THEN /\ stack' = DetachStacks(moved, f.ty, subs[f.ty])
                        /\ th' = Detach(th, f.ty, subs[f.ty])
                   ELSE /\ stack' = moved
                        /\ th' = th
           ELSE /\ subs' = subs
                /\ stack' = moved
                /\ th' = th
        /\ ghost' = GhostAfter(ghost, [f EXCEPT !.err = IF Writes(f) THEN e
                                                        ELSE NoValue])
        /\ LockLeave
        /\ UNCHANGED <<ncalls, nnest>>

\* One turn of the loop of a publish called by a callback.
NIter(t) ==
    LET f == Top(t)
        l == IterList(f)
    IN  /\ stack[t] # <<>>
        /\ f.pc = "iter"
        /\ IF f.idx < Len(l)
           THEN /\ stack' = SetTop(t,
                     [f EXCEPT
                        !.idx = f.idx + 1,
                        !.invoked =
                            Append(f.invoked,
                                   [cb |-> l[f.idx + 1],
                                    arg |-> InvokeArg(l[f.idx + 1], f.ty, f.ev),
                                    on |-> t])])
                /\ UNCHANGED <<lockOwner, lockCount>>
           ELSE /\ stack' = SetTop(t, [f EXCEPT !.pc = "exit"])
                /\ LockLeave
        /\ UNCHANGED <<subs, th, ncalls, ghost, nnest>>

\* The call made by a callback returns or raises into the callback, which
\* goes on: the caller's frame notes the call and its outcome.
NExit(t) ==
    LET f == Top(t)
        note == [op |-> f.op, ty |-> f.ty, cb |-> f.cb, outcome |-> Outcome(f)]
        below == SubSeq(stack[t], 1, Len(stack[t]) - 1)
    IN  /\ stack[t] # <<>>
        /\ f.pc = "exit"
        /\ IF below = <<>>
           THEN /\ stack' = [stack EXCEPT ![t] = <<>>]
                /\ th' = [th EXCEPT ![t].nested = Append(@, note)]
           ELSE /\ stack' = [stack EXCEPT ![t] =
                               [below EXCEPT ![Len(below)].nested =
                                                 Append(@, note)]]
                /\ th' = th
        /\ UNCHANGED <<subs, lockOwner, lockCount, ncalls, ghost, nnest>>

(***************************************************************************)
(* Part 5.  Event types and event instances (Event.py).  EventType makes   *)
(* a class and saves its parameter declarations in the registry of         *)
(* EventMeta; calling the class builds an instance from the declarations   *)
(* and the keyword arguments of the call; instances compare by the         *)
(* priority of their class.                                                *)
(***************************************************************************)
\* Python objects: a class, a value (named by its literal), a 2-tuple.
TypeObj(n) == [kind |-> "type", name |-> n, items |-> <<>>]
Val(l) == [kind |-> "value", name |-> l, items |-> <<>>]
Tup(a, b) == [kind |-> "tuple", name |-> NoValue, items |-> <<a, b>>]
None == Val("None")

\* 'priority' not in kwargs
NoPriority == [kind |-> "absent", name |-> NoValue, items |-> <<>>]

\* type(o).__name__
TypeName(o) ==
    CASE o.kind = "type" -> "type"
      [] o.kind = "tuple" -> "tuple"
      [] o.kind = "value" /\ o.name \in {"1", "5"} -> "int"
      [] o.kind = "value" /\ o.name \in {"'x'", "'d'"} -> "str"
      [] OTHER -> "NoneType"

\* isinstance(o, cls): every object is an instance of object.
IsInstance(o, cls) == cls = "object" \/ TypeName(o) = cls

\* The int an int literal denotes.
IntOf(o) == IF o.name = "1" THEN 1 ELSE 5

\* The most parameters a type declares, and the most EventType calls of a
\* run.
MaxParams == 2
MaxDefs == 3

AllNames == <<"p1", "p2", "p3">>
ParamNames == {AllNames[i] : i \in 1..MaxParams}

\* A keyword no type declares.
Undeclared == "z"

\* What a declaration of a parameter can be: a type; a (type, default)
\* tuple with a default of the type, of another type, or None; something
\* that is neither; a tuple whose first item is no type.
Declarations ==
    {TypeObj("int"), TypeObj("str"),
     Tup(TypeObj("str"), Val("'d'")), Tup(TypeObj("int"), Val("'d'")),
     Tup(TypeObj("object"), None),
     Val("'x'"), Tup(Val("'x'"), Val("5"))}

\* ParameterDict: the keyword arguments of EventType in their order.
ParameterDicts ==
    UNION {{p \in [1..n -> [key : ParamNames, decl : Declarations]] :
               \A i, j \in 1..n : i # j => p[i].key # p[j].key} :
           n \in 0..MaxParams}

\* The keyword arguments of a construction.
ArgumentMaps ==
    UNION {[K -> {Val("1"), Val("'x'")}] :
           K \in SUBSET (ParamNames \cup {Undeclared})}

\* The functions on the stack of an EventType call, nearest first.
Stacks == {<<"<module>">>, <<"build", "<module>">>, <<"_make", "<module>">>}

\* '_' in caller or '<' in caller
Hidden(caller) == caller \in {"<module>", "_make"}

\* The loop over the stack: each caller that is not hidden goes in front
\* of the prefix built from the nearer ones.
RECURSIVE Prefix(_)
Prefix(stk) ==
    IF stk = <<>> THEN <<>>
    ELSE Prefix(Tail(stk)) \o
         (IF Hidden(Head(stk)) THEN <<>> ELSE <<Head(stk)>>)

\* getFullName of the class EventType makes: its module, and the qualified
\* name, which is the prefix and the name.
FullName(stk, name) == <<"evtdis.Event">> \o Prefix(stk) \o <<name>>

NoError == [exc |-> NoValue, site |-> NoValue, key |-> NoValue]

IdleDefn ==
    [pc |-> "idle", name |-> <<>>, parameters |-> <<>>, priority |-> 0,
     conc |-> FALSE]

IdleInst ==
    [pc |-> "idle", name |-> <<>>, parameters |-> <<>>, arguments |-> <<>>,
     argCopy |-> <<>>, idx |-> 0, self |-> <<>>, err |-> NoError]

NoComparison == [held |-> <<>>, table |-> <<>>]

EInit ==
    /\ instances = <<>>
    /\ synchronize = NoThread
    /\ defn = [t \in Threads |-> IdleDefn]
    /\ defined = <<>>
    /\ inst = IdleInst
    /\ cmp = NoComparison

\* An EventType call that has ended: conc is specification state, whether
\* another call naming the same class was in progress during it.
Ended(t, name, parameters, outcome, conc) ==
    [thread |-> t, name |-> name, parameters |-> parameters,
     outcome |-> outcome, conc |-> conc]

InProgress == {t \in Threads : defn[t].pc # "idle"}

\* EventType(name, priority=priority, **parameters) called by thread t
\* with the callers stk: the priority is checked and the class is made.
EventTypeCall(t, stk, name, priority, parameters) ==
    LET full == FullName(stk, name)
        same == {u \in InProgress : defn[u].name = full}
    IN  /\ defn[t].pc = "idle"
        /\ Len(defined) + Cardinality(InProgress) < MaxDefs
        /\ IF priority # NoPriority /\ ~IsInstance(priority, "int")
           THEN /\ defined' = Append(defined,
                       Ended(t, full, parameters, "priority", same # {}))
                /\ defn' = defn
           ELSE /\ defn' = [u \in Threads |->
                     IF u = t
                     THEN [pc |-> "lock", name |-> full,
                           parameters |-> parameters,
                           priority |-> IF priority = NoPriority
                                        THEN DefaultPriority
                                        ELSE IntOf(priority),
                           conc |-> same # {}]
                     ELSE IF u \in same THEN [defn[u] EXCEPT !.conc = TRUE]
                     ELSE defn[u]]
                /\ defined' = defined
        /\ UNCHANGED <<instances, synchronize, inst, cmp>>

\* No lock: the with block is entered at once.
SynchronizeTaken == TRUE

\* Lock.acquire() returns when no thread holds the lock.
SynchronizeFree == synchronize = NoThread

\* _setParameters: with EventMeta._synchronize
SetParametersLock(t) ==
    /\ defn[t].pc = "lock"
    /\ SynchronizeFree
    /\ synchronize' = t
    /\ defn' = [defn EXCEPT ![t].pc = "check"]
    /\ UNCHANGED <<instances, defined, inst, cmp>>

\* _setParameters: if name in EventMeta._instances: raise TypeError, which
\* leaves the with block and EventType.
SetParametersCheck(t) ==
    LET f == defn[t]
    IN  /\ f.pc = "check"
        /\ IF f.name \in DOMAIN instances
           THEN /\ synchronize' = NoThread
                /\ defined' = Append(defined,
                       Ended(t, f.name, f.parameters, "exists", f.conc))
                /\ defn' = [defn EXCEPT ![t] = IdleDefn]
           ELSE /\ defn' = [defn EXCEPT ![t].pc = "store"]
                /\ UNCHANGED <<synchronize, defined>>
        /\ UNCHANGED <<instances, inst, cmp>>

\* _setParameters: the declarations are stored, the with block ends and
\* EventType returns the class.
SetParametersStore(t) ==
    LET f == defn[t]
    IN  /\ f.pc = "store"
        /\ instances' = SetKey(instances, f.name, f.parameters)
        /\ synchronize' = NoThread
        /\ defined' = Append(defined,
               Ended(t, f.name, f.parameters, "ok", f.conc))
        /\ defn' = [defn EXCEPT ![t] = IdleDefn]
        /\ UNCHANGED <<inst, cmp>>

\* The declaration of one parameter as Event.__init__ reads it: its type
\* and its default (None when it declares none), or not ok when the
\* TypeError of a declaration is raised.
Declaration(value) ==
    IF IsInstance(value, "type")
    THEN [ok |-> TRUE, type |-> value.name, default |-> None]
    ELSE IF IsInstance(value, "tuple")
    THEN IF ~IsInstance(value.items[1], "type")
         THEN [ok |-> FALSE, type |-> NoValue, default |-> None]
         ELSE IF IsInstance(value.items[2], value.items[1].name)
         THEN [ok |-> TRUE, type |-> value.items[1].name,
               default |-> value.items[2]]
         ELSE [ok |-> FALSE, type |-> value.items[1].name, default |-> None]
    ELSE [ok |-> FALSE, type |-> NoValue, default |-> None]

\* An absent argument is never reported.
NoValueForNever(supplied, paramDefault) == FALSE

\* Neither branch of "if key in arguments ... elif paramDefault is not
\* None" is taken.
NoValueFor(supplied, paramDefault) == ~supplied /\ paramDefault = None

\* Arguments no parameter has taken are dropped.
ExtraArgumentsDropped(argCopy) == FALSE

\* len(argCopy) != 0
ExtraArguments(argCopy) == DOMAIN argCopy # {}

\* The class each raise statement of Event.__init__ raises.
ExceptionAt(site) ==
    IF site \in {"missing", "extra"} THEN "RuntimeError" ELSE "TypeError"

Raise(exc, site, key) ==
    [inst EXCEPT !.pc = "done",
                 !.err = [exc |-> exc, site |-> site, key |-> key]]

\* Type(**arguments) by thread t for a class EventType has returned:
\* EventMeta.__call__ reads the declarations under the lock, and
\* Event.__init__ copies the arguments.
InstanceCall(t, name, arguments) ==
    /\ defn[t].pc = "idle"
    /\ inst.pc \in {"idle", "done"}
    /\ name \in DOMAIN instances
    /\ SynchronizeFree
    /\ inst' = [pc |-> "loop", name |-> name, parameters |-> instances[name],
                arguments |-> arguments, argCopy |-> arguments, idx |-> 1,
                self |-> <<>>, err |-> NoError]
    /\ UNCHANGED <<instances, synchronize, defn, defined, cmp>>

\* One turn of the loop over parameters.keys().
InstanceStep ==
    LET key == inst.parameters[inst.idx].key
        d == Declaration(inst.parameters[inst.idx].decl)
        supplied == key \in DOMAIN inst.arguments
        argValue == IF supplied THEN inst.argCopy[key] ELSE d.default
    IN  /\ inst.pc = "loop"
        /\ inst.idx <= Len(inst.parameters)
        /\ inst' =
             IF ~d.ok THEN Raise(ExceptionAt("declaration"), "declaration", key)
             ELSE IF NoValueFor(supplied, d.default)
             THEN Raise(ExceptionAt("missing"), "missing", key)
             ELSE IF ~IsInstance(argValue, d.type)
             THEN Raise(ExceptionAt("mismatch"), "mismatch", key)
             ELSE [inst EXCEPT
                     !.argCopy = IF supplied THEN DropKey(@, key) ELSE @,
                     !.self = SetKey(@, key, argValue),
                     !.idx = @ + 1]
        /\ UNCHANGED <<instances, synchronize, defn, defined, cmp>>

\* After the loop: the arguments no parameter has taken.
InstanceReturn ==
    /\ inst.pc = "loop"
    /\ inst.idx > Len(inst.parameters)
    /\ inst' = IF ExtraArguments(inst.argCopy)
               THEN Raise(ExceptionAt("extra"), "extra", NoValue)
               ELSE [inst EXCEPT !.pc = "done"]
    /\ UNCHANGED <<instances, synchronize, defn, defined, cmp>>

\* __gt__, __le__, __ge__ (with EventLt and EventEq of Part 2)
EventGt(a, b) == a.priority > b.priority
EventLe(a, b) == a.priority <= b.priority
EventGe(a, b) == a.priority >= b.priority

\* The most payloads an instance of a type is built with.
MaxPayload == 2

\* Instances of the five types of the priority queue test; id stands for
\* the payload.
EventInstances == {QEvent(ty, n) : ty \in QTypes, n \in 1..MaxPayload}

\* Three instances are compared with each other by every operator.
Compare(a, b, c) ==
    LET held == <<a, b, c>>
    IN  /\ cmp = NoComparison
        /\ cmp' = [held |-> held,
                   table |-> [i \in 1..3 |-> [j \in 1..3 |->
                       [eq |-> EventEq(held[i], held[j]),
                        lt |-> EventLt(held[i], held[j]),
                        gt |-> EventGt(held[i], held[j]),
                        le |-> EventLe(held[i], held[j]),
                        ge |-> EventGe(held[i], held[j])]]]]
        /\ UNCHANGED <<instances, synchronize, defn, defined, inst>>

(***************************************************************************)
(* Part 6.  Internal events of a dispatcher: callbacks are subscribed in   *)
(* its internal table, and an internal publish runs them where it is       *)
(* called.  The generator of the dispatcher test subscribes a callback to  *)
(* each of its two Internal types and publishes one event of each, one     *)
(* after the other, from the thread of the client.                         *)
(***************************************************************************)
InternalTypes == {"Internal.One", "Internal.Two"}

InternalCallback(ty) ==
    IF ty = "Internal.One" THEN "internalEventOneCB"
    ELSE "internalEventTwoCB"

\* self.eventOneArgs, self.eventTwoArgs
InternalArgs(ty) == IF ty = "Internal.One" THEN "eventOneArgs"
                    ELSE "eventTwoArgs"

IInit ==
    /\ intSubs = [d \in Dispatchers |-> <<>>]
    /\ itrig = [d \in Dispatchers |-> "none"]

\* The callbacks subscribed to a type in the internal table.
InternalSubscribers(d, ty) ==
    IF ty \in DOMAIN intSubs[d] THEN intSubs[d][ty] ELSE <<>>

\* addInternalEventProcessing(): _subscribeInternalEvent for both types.
AddInternalEventProcessing(d) ==
    /\ intSubs[d] = <<>>
    /\ intSubs' = [intSubs EXCEPT
                     ![d] = [ty \in InternalTypes |-> <<InternalCallback(ty)>>]]
    /\ UNCHANGED <<dispVars, itrig>>

\* The callbacks of list l, from the i-th, run on thread `on`.
RECURSIVE RunAll(_, _, _, _, _, _)
RunAll(log, l, i, ty, params, on) ==
    IF i > Len(l) THEN log
    ELSE RunAll(Record(log, Entry(l[i], ty, params, on, 0)), l, i + 1,
                ty, params, on)

\* An internal publish that hands the event to the queue of the
\* dispatcher, for its worker thread.
PublishInternalQueued(d, t, ty, params) ==
    /\ queue' = [queue EXCEPT
                   ![d] = Put(@, Item(d, "Input", ty, params, "internal"))]
    /\ hist' = [hist EXCEPT ![d].nseq = IF recording THEN @ + 1 ELSE @]
    /\ UNCHANGED exec

\* _publishInternalEvent(event) called by thread t: the callbacks
\* subscribed to the type of the event run at once, in thread t.
PublishInternal(d, t, ty, params) ==
    /\ exec' = [exec EXCEPT
                  ![d] = RunAll(@, InternalSubscribers(d, ty), 1, ty,
                                params, t)]
    /\ UNCHANGED <<queue, hist>>

\* triggerInternalEvents(), first statement.
TriggerInternalOne(d) ==
    /\ itrig[d] = "none"
    /\ recording
    /\ PublishInternal(d, MainThread, "Internal.One",
                       InternalArgs("Internal.One"))
    /\ itrig' = [itrig EXCEPT ![d] = "one"]
    /\ UNCHANGED <<dstate, wpc, cur, outSubs, idleOn, joinSt, recording,
                   res, intSubs>>

\* triggerInternalEvents(), second statement and return.
TriggerInternalTwo(d) ==
    /\ itrig[d] = "one"
    /\ PublishInternal(d, MainThread, "Internal.Two",
                       InternalArgs("Internal.Two"))
    /\ itrig' = [itrig EXCEPT ![d] = "done"]
    /\ UNCHANGED <<dstate, wpc, cur, outSubs, idleOn, joinSt, recording,
                   res, intSubs>>

(***************************************************************************)
(* Part 7.  Two Publishers, each with its own RLock, and threads that      *)
(* publish on one of them events whose subscribers publish on the other.   *)
(***************************************************************************)
Publishers == {"P", "Q"}

OtherPublisher(p) == IF p = "P" THEN "Q" ELSE "P"

\* Each Publisher publishes two event types.
PTypes == {"Ping", "Note"}

MaxPublishes == 2

\* A subscriber that returns at once and one that publishes an event of
\* type ty on Publisher p before it returns.
Plain == [to |-> NoValue, ty |-> NoValue]

Forward(p, ty) == [to |-> p, ty |-> ty]

\* _subscribers of Publisher p, set up before the threads start: the
\* subscriber of Ping publishes a Note on the other Publisher, the
\* subscriber of Note returns.
PSubscribers(p, ty) ==
    IF ty = "Ping" THEN <<Forward(OtherPublisher(p), "Note")>> ELSE <<Plain>>

NoPublish == [pub |-> NoValue, ty |-> NoValue, overlapped |-> FALSE]

TInit ==
    /\ plock = [p \in Publishers |-> [owner |-> NoThread, count |-> 0]]
    /\ pstack = [t \in Threads |-> <<>>]
    /\ npub = [t \in Threads |-> 0]
    /\ plast = [t \in Threads |-> NoPublish]

\* A publish call that has not reached `with self._lock` yet.
\* overlapped is specification state: whether the other thread was inside
\* a publish of its own at some moment of this call.
PFrame(p, ty, overlapped) ==
    [pub |-> p, ty |-> ty, pc |-> "acquire", idx |-> 0,
     overlapped |-> overlapped]

Innermost(stk) == stk[Len(stk)]

\* The RLock is never given back.
PLockLeaveHeld(l) == l

\* RLock.release(): the recursion level goes down and the lock is free
\* again at level 0.
PLockLeave(l) ==
    [owner |-> IF l.count - 1 = 0 THEN NoThread ELSE l.owner,
     count |-> l.count - 1]

\* RLock.acquire() returns for thread t: the lock is free or t's own.
PLockGuard(l, t) == l.owner = NoThread \/ l.owner = t

\* The client code of thread t calls p.publish(ty()).
PPublish(t, p, ty) ==
    /\ pstack[t] = <<>>
    /\ npub[t] < MaxPublishes
    /\ npub' = [npub EXCEPT ![t] = @ + 1]
    /\ pstack' = [u \in Threads |->
                    IF u = t
                    THEN <<PFrame(p, ty, \E v \in Threads \ {t} :
                                            pstack[v] # <<>>)>>
                    ELSE IF pstack[u] # <<>>
                         THEN [pstack[u] EXCEPT ![1].overlapped = TRUE]
                         ELSE pstack[u]]
    /\ UNCHANGED <<plock, plast>>

\* with self._lock: (the event type is registered)
PAcquire(t) ==
    /\ pstack[t] # <<>>
    /\ Innermost(pstack[t]).pc = "acquire"
    /\ PLockGuard(plock[Innermost(pstack[t]).pub], t)
    /\ plock' = [plock EXCEPT ![Innermost(pstack[t]).pub] =
                    [owner |-> t, count |-> @.count + 1]]
    /\ pstack' = [pstack EXCEPT ![t][Len(pstack[t])].pc = "iter"]
    /\ UNCHANGED <<npub, plast>>

\* for subscriber in self._subscribers[type(event)]: subscriber(**event),
\* one subscriber per step; a forwarding subscriber calls publish on its
\* Publisher, in this thread, and returns when that publish has returned.
\* At the end of the list the with-block releases the lock and publish
\* returns.
PIter(t) ==
    /\ pstack[t] # <<>>
    /\ Innermost(pstack[t]).pc = "iter"
    /\ LET f == Innermost(pstack[t])
           l == PSubscribers(f.pub, f.ty)
           n == Len(pstack[t])
       IN  IF f.idx < Len(l)
           THEN /\ pstack' = [pstack EXCEPT ![t] =
                      IF l[f.idx + 1] = Plain
                      THEN [@ EXCEPT ![n].idx = f.idx + 1]
                      ELSE Append([@ EXCEPT ![n].idx = f.idx + 1],
                                  PFrame(l[f.idx + 1].to, l[f.idx + 1].ty,
                                         FALSE))]
                /\ UNCHANGED <<plock, plast>>
           ELSE /\ plock' = [plock EXCEPT ![f.pub] = PLockLeave(@)]
                /\ pstack' = [pstack EXCEPT ![t] = SubSeq(@, 1, n - 1)]
                /\ plast' = IF n = 1
                            THEN [plast EXCEPT ![t] =
                                    [pub |-> f.pub, ty |-> f.ty,
                                     overlapped |-> f.overlapped]]
                            ELSE plast
    /\ UNCHANGED npub


(***************************************************************************)
(* Specifications.                                                         *)
(*   Spec    : one Publisher called by concurrent client threads.          *)
(*   SpecD   : the dispatchers, in a recorded run with bounded input.      *)
(*   SpecQ   : the PriorityQueue of Events.                                *)
(*   SpecF   : the dispatchers fed an unbounded stream of input events,    *)
(*             their worker threads and the waiting join() scheduled       *)
(*             fairly.                                                     *)
(*   SpecL   : the lifecycle of one dispatcher in a recorded run, with     *)
(*             idle processing and the calls that raise, its worker        *)
(*             thread scheduled fairly.                                    *)
(*   SpecR   : the Publisher called by client threads and, from inside     *)
(*             publish, by the callbacks; threads scheduled fairly.        *)
(*   SpecE   : one event type defined and an instance of it built.         *)
(*   SpecG   : event types defined by concurrent threads.                  *)
(*   SpecC   : event instances compared.                                   *)
(*   SpecX   : the errors of a construction and of Publisher calls.        *)
(*   SpecI   : one dispatcher and the internal events its client triggers. *)
(*   SpecA   : one Publisher called by concurrent client threads, with     *)
(*             callbacks that may raise.                                   *)
(*   SpecT   : two Publishers whose subscribers publish on each other,     *)
(*             called by two threads scheduled fairly.                     *)
(***************************************************************************)
Init == PubInit /\ DInit /\ QInit /\ RInit /\ EInit /\ IInit /\ TInit /\ recording = TRUE

Next ==
    \E t \in Threads :
        \/ CallAny(t) /\ UNCHANGED <<dispVars, qVars, rVars, eVars, iVars, tVars>>
        \/ Enter(t) /\ UNCHANGED <<dispVars, qVars, rVars, eVars, iVars, tVars>>
        \/ Mutate(t) /\ UNCHANGED <<dispVars, qVars, rVars, eVars, iVars, tVars>>
        \/ Iter(t) /\ UNCHANGED <<dispVars, qVars, rVars, eVars, iVars, tVars>>
        \/ Exit(t) /\ UNCHANGED <<dispVars, qVars, rVars, eVars, iVars, tVars>>

Spec == Init /\ [][Next]_vars

othVars == <<pubVars, qVars, rVars, eVars, iVars, tVars>>

InitD == PubInit /\ DInit /\ QInit /\ RInit /\ EInit /\ IInit /\ TInit /\ recording = TRUE

NextD ==
    \E d \in Dispatchers :
        \/ Start(d) /\ UNCHANGED othVars
        \/ \E a \in Dispatchers :
             \E ty \in OutputTypes(a) :
                SubscribeRemote(d, a, ty) /\ UNCHANGED othVars
        \/ \E ty \in InputTypes(d) :
             Deliver(d, ty, ParamOf(hist[d].ndeliv + 1)) /\ UNCHANGED othVars
        \/ TriggerExit(d) /\ UNCHANGED othVars
        \/ Join(d) /\ UNCHANGED othVars
        \/ JoinReturn(d) /\ UNCHANGED othVars
        \/ WRunning(d) /\ UNCHANGED othVars
        \/ WGet(d) /\ UNCHANGED othVars
        \/ WProcess(d) /\ UNCHANGED othVars
        \/ WTerminate(d) /\ UNCHANGED othVars

SpecD == InitD /\ [][NextD]_vars

InitQ == PubInit /\ DInit /\ QInit /\ RInit /\ EInit /\ IInit /\ TInit /\ recording = TRUE

NextQ ==
    \/ \E ty \in QTypes :
         QPut(ty) /\ UNCHANGED <<pubVars, dispVars, rVars, eVars, iVars, tVars>>
    \/ QGet /\ UNCHANGED <<pubVars, dispVars, rVars, eVars, iVars, tVars>>

SpecQ == InitQ /\ [][NextQ]_vars

InitF == PubInit /\ DInit /\ QInit /\ RInit /\ EInit /\ IInit /\ TInit /\ recording = FALSE

NextF ==
    \E d \in Dispatchers :
        \/ Start(d) /\ UNCHANGED othVars
        \/ \E ty \in InputTypes(d) :
             Deliver(d, ty, ParamOf(hist[d].ndeliv + 1)) /\ UNCHANGED othVars
        \/ TriggerExit(d) /\ UNCHANGED othVars
        \/ Join(d) /\ UNCHANGED othVars
        \/ JoinReturn(d) /\ UNCHANGED othVars
        \/ WRunning(d) /\ UNCHANGED othVars
        \/ WGet(d) /\ UNCHANGED othVars
        \/ WProcess(d) /\ UNCHANGED othVars
        \/ WTerminate(d) /\ UNCHANGED othVars

\* The worker thread of a started dispatcher keeps running, a queue.get
\* on a non-empty queue returns, callbacks terminate, and a join() whose
\* thread has terminated returns.
Fairness ==
    \A d \in Dispatchers :
        /\ WF_vars(WRunning(d) /\ UNCHANGED othVars)
        /\ WF_vars(WGet(d) /\ UNCHANGED othVars)
        /\ WF_vars(WProcess(d) /\ UNCHANGED othVars)
        /\ WF_vars(WTerminate(d) /\ UNCHANGED othVars)
        /\ WF_vars(JoinReturn(d) /\ UNCHANGED othVars)

SpecF == InitF /\ [][NextF]_vars /\ Fairness

\* The dispatcher whose lifecycle SpecL follows.
Lone == "gen"

InitL == PubInit /\ DInit /\ QInit /\ RInit /\ EInit /\ IInit /\ TInit /\ recording = TRUE

NextL ==
    \/ Start(Lone) /\ UNCHANGED othVars
    \/ StartAgain(Lone) /\ UNCHANGED othVars
    \/ EnableIdle(Lone) /\ UNCHANGED othVars
    \/ \E ty \in InputTypes(Lone) :
         Deliver(Lone, ty, ParamOf(hist[Lone].ndeliv + 1))
           /\ UNCHANGED othVars
    \/ \E ty \in InputTypes(Lone) :
         DeliverRejected(Lone, ty) /\ UNCHANGED othVars
    \/ TriggerExit(Lone) /\ UNCHANGED othVars
    \/ Join(Lone) /\ UNCHANGED othVars
    \/ JoinReturn(Lone) /\ UNCHANGED othVars
    \/ WRunning(Lone) /\ UNCHANGED othVars
    \/ WGet(Lone) /\ UNCHANGED othVars
    \/ WIdle(Lone) /\ UNCHANGED othVars
    \/ WProcess(Lone) /\ UNCHANGED othVars
    \/ WTerminate(Lone) /\ UNCHANGED othVars

\* The worker thread keeps running, and its queue wait times out when no
\* item arrives within the wake interval.
FairnessL ==
    /\ WF_vars(WRunning(Lone) /\ UNCHANGED othVars)
    /\ WF_vars(WGet(Lone) /\ UNCHANGED othVars)
    /\ WF_vars(WIdle(Lone) /\ UNCHANGED othVars)
    /\ WF_vars(WProcess(Lone) /\ UNCHANGED othVars)
    /\ WF_vars(WTerminate(Lone) /\ UNCHANGED othVars)

SpecL == InitL /\ [][NextL]_vars /\ FairnessL

\* The subscriber lists a registry can hold: no callback twice.
SubscriberLists ==
    {<<>>} \cup {<<c>> : c \in Callbacks}
           \cup {l \in {<<c, e>> : c \in Callbacks, e \in Callbacks} :
                     l[1] # l[2]}

\* The thread SpecR follows.
Caller == "t1"

\* SpecR starts from any registry that registerEvent and subscribe calls
\* can have built; its client publishes, and the callbacks call back.
InitR ==
    /\ \E D \in SUBSET EventTypes : subs \in [D -> SubscriberLists]
    /\ ghost = subs
    /\ lockOwner = NoThread
    /\ lockCount = 0
    /\ th = [t \in Threads |-> IdleFrame]
    /\ ncalls = [t \in Threads |-> 0]
    /\ DInit /\ QInit /\ RInit /\ EInit /\ IInit /\ TInit /\ recording = TRUE

CallPublish(t) ==
    \E ty \in EventTypes : \E ev \in Payloads :
        Call(t, "publish", ty, NoValue, ev)

\* A statement of thread t, in the client's publish (which writes nothing)
\* or in a call made by a callback.
StepR(t) ==
    \/ Enter(t) /\ UNCHANGED <<dispVars, qVars, rVars, eVars, iVars, tVars>>
    \/ Iter(t) /\ stack[t] = <<>>
         /\ UNCHANGED <<dispVars, qVars, rVars, eVars, iVars, tVars>>
    \/ Exit(t) /\ UNCHANGED <<dispVars, qVars, rVars, eVars, iVars, tVars>>
    \/ NEnter(t) /\ UNCHANGED <<dispVars, qVars, eVars, iVars, tVars>>
    \/ NMutate(t) /\ UNCHANGED <<dispVars, qVars, eVars, iVars, tVars>>
    \/ NIter(t) /\ UNCHANGED <<dispVars, qVars, eVars, iVars, tVars>>
    \/ NExit(t) /\ UNCHANGED <<dispVars, qVars, eVars, iVars, tVars>>

NextR ==
    \/ CallPublish(Caller) /\ UNCHANGED <<dispVars, qVars, rVars, eVars, iVars, tVars>>
    \/ NCallAny(Caller) /\ UNCHANGED <<dispVars, qVars, eVars, iVars, tVars>>
    \/ StepR(Caller)

\* A thread that can execute its next statement eventually does.
FairnessR == WF_vars(StepR(Caller))

SpecR == InitR /\ [][NextR]_vars /\ FairnessR

\* SpecE defines one type, with any declarations, and builds an instance
\* of it from any keyword arguments.
InitE == PubInit /\ DInit /\ QInit /\ RInit /\ EInit /\ IInit /\ TInit /\ recording = TRUE

nonE == <<pubVars, dispVars, qVars, rVars, iVars, tVars>>

NextE ==
    \/ \E parameters \in ParameterDicts :
         /\ instances = <<>>
         /\ EventTypeCall(Caller, <<"<module>">>, "E", NoPriority, parameters)
         /\ UNCHANGED nonE
    \/ SetParametersLock(Caller) /\ UNCHANGED nonE
    \/ SetParametersCheck(Caller) /\ UNCHANGED nonE
    \/ SetParametersStore(Caller) /\ UNCHANGED nonE
    \/ \E name \in DOMAIN instances : \E arguments \in ArgumentMaps :
         /\ inst.pc = "idle"
         /\ InstanceCall(Caller, name, arguments)
         /\ UNCHANGED nonE
    \/ InstanceStep /\ UNCHANGED nonE
    \/ InstanceReturn /\ UNCHANGED nonE

SpecE == InitE /\ [][NextE]_vars

\* The declarations the threads of SpecG define their types with.
SomeDicts == {<<>>, <<[key |-> "p1", decl |-> TypeObj("int")]>>}

\* SpecG: threads define types of one name from several calling contexts.
InitG == PubInit /\ DInit /\ QInit /\ RInit /\ EInit /\ IInit /\ TInit /\ recording = TRUE

NextG ==
    \E t \in Threads :
        \/ \E stk \in Stacks :
             \E priority \in {NoPriority, Val("5"), Val("'x'")} :
               \E parameters \in SomeDicts :
                 EventTypeCall(t, stk, "E", priority, parameters)
                   /\ UNCHANGED nonE
        \/ SetParametersLock(t) /\ UNCHANGED nonE
        \/ SetParametersCheck(t) /\ UNCHANGED nonE
        \/ SetParametersStore(t) /\ UNCHANGED nonE

SpecG == InitG /\ [][NextG]_vars

\* SpecC: instances are compared.
InitC == PubInit /\ DInit /\ QInit /\ RInit /\ EInit /\ IInit /\ TInit /\ recording = TRUE

NextC ==
    \E a, b, c \in EventInstances : Compare(a, b, c) /\ UNCHANGED nonE

SpecC == InitC /\ [][NextC]_vars


\* The declarations of the test's BadEvent: p1=int, p2=(str, default).
BadEvent ==
    <<[key |-> "p1", decl |-> TypeObj("int")],
      [key |-> "p2", decl |-> Tup(TypeObj("str"), Val("'d'"))]>>

\* The thread that calls the Publisher in SpecX.
Other == "t2"

\* SpecX: one thread defines BadEvent and builds an instance of it from
\* any keyword arguments, another calls the Publisher.
InitX == PubInit /\ DInit /\ QInit /\ RInit /\ EInit /\ IInit /\ TInit /\ recording = TRUE

NextX ==
    \/ /\ instances = <<>>
       /\ EventTypeCall(Caller, <<"<module>">>, "E", Val("5"), BadEvent)
       /\ UNCHANGED nonE
    \/ SetParametersLock(Caller) /\ UNCHANGED nonE
    \/ SetParametersCheck(Caller) /\ UNCHANGED nonE
    \/ SetParametersStore(Caller) /\ UNCHANGED nonE
    \/ \E name \in DOMAIN instances : \E arguments \in ArgumentMaps :
         /\ inst.pc = "idle"
         /\ InstanceCall(Caller, name, arguments)
         /\ UNCHANGED nonE
    \/ InstanceStep /\ UNCHANGED nonE
    \/ InstanceReturn /\ UNCHANGED nonE
    \/ CallAny(Other) /\ UNCHANGED <<dispVars, qVars, rVars, eVars, iVars, tVars>>
    \/ Enter(Other) /\ UNCHANGED <<dispVars, qVars, rVars, eVars, iVars, tVars>>
    \/ Mutate(Other) /\ UNCHANGED <<dispVars, qVars, rVars, eVars, iVars, tVars>>
    \/ Iter(Other) /\ UNCHANGED <<dispVars, qVars, rVars, eVars, iVars, tVars>>
    \/ Exit(Other) /\ UNCHANGED <<dispVars, qVars, rVars, eVars, iVars, tVars>>

SpecX == InitX /\ [][NextX]_vars

\* SpecI: the generator, its internal event processing added at some
\* time, started, fed and stopped, while its client triggers the internal
\* events.
InitI ==
    PubInit /\ DInit /\ QInit /\ RInit /\ EInit /\ IInit /\ TInit
        /\ recording = TRUE

nonI == <<pubVars, qVars, rVars, eVars, tVars>>

NextI ==
    \/ AddInternalEventProcessing(Lone) /\ UNCHANGED nonI
    \/ TriggerInternalOne(Lone) /\ UNCHANGED nonI
    \/ TriggerInternalTwo(Lone) /\ UNCHANGED nonI
    \/ Start(Lone) /\ UNCHANGED othVars
    \/ \E ty \in InputTypes(Lone) :
         Deliver(Lone, ty, ParamOf(hist[Lone].ndeliv + 1))
           /\ UNCHANGED othVars
    \/ TriggerExit(Lone) /\ UNCHANGED othVars
    \/ Join(Lone) /\ UNCHANGED othVars
    \/ JoinReturn(Lone) /\ UNCHANGED othVars
    \/ WRunning(Lone) /\ UNCHANGED othVars
    \/ WGet(Lone) /\ UNCHANGED othVars
    \/ WProcess(Lone) /\ UNCHANGED othVars
    \/ WTerminate(Lone) /\ UNCHANGED othVars

SpecI == InitI /\ [][NextI]_vars

\* ---- SpecA
InitA == PubInit /\ DInit /\ QInit /\ RInit /\ EInit /\ IInit /\ TInit /\ recording = TRUE

NextA ==
    \E t \in Threads :
        \/ CallAny(t) /\ UNCHANGED <<dispVars, qVars, rVars, eVars, iVars, tVars>>
        \/ Enter(t) /\ UNCHANGED <<dispVars, qVars, rVars, eVars, iVars, tVars>>
        \/ Mutate(t) /\ UNCHANGED <<dispVars, qVars, rVars, eVars, iVars, tVars>>
        \/ Iter(t) /\ UNCHANGED <<dispVars, qVars, rVars, eVars, iVars, tVars>>
        \/ IterRaise(t) /\ UNCHANGED <<dispVars, qVars, rVars, eVars, iVars, tVars>>
        \/ Exit(t) /\ UNCHANGED <<dispVars, qVars, rVars, eVars, iVars, tVars>>

SpecA == InitA /\ [][NextA]_vars

\* ---- SpecT
InitT == PubInit /\ DInit /\ QInit /\ RInit /\ EInit /\ IInit /\ TInit /\ recording = TRUE

StepT(t) ==
    \/ (\E p \in Publishers, ty \in PTypes : PPublish(t, p, ty))
          /\ UNCHANGED <<pubVars, dispVars, qVars, rVars, eVars, iVars>>
    \/ PAcquire(t) /\ UNCHANGED <<pubVars, dispVars, qVars, rVars, eVars, iVars>>
    \/ PIter(t) /\ UNCHANGED <<pubVars, dispVars, qVars, rVars, eVars, iVars>>

NextT == \E t \in Threads : StepT(t)

\* A thread that can take a step takes one: a thread waiting for an RLock
\* gets it once the lock stays free.
FairnessT == \A t \in Threads : WF_vars(StepT(t))

SpecT == InitT /\ [][NextT]_vars /\ FairnessT

(***************************************************************************)
(* Claims about the Publisher.                                             *)
(***************************************************************************)
CallbacksOf(inv) == [i \in 1..Len(inv) |-> inv[i].cb]

\* C1: a publish on a registered type invokes every callback of the type's
\* subscriber list exactly once, in subscription order, on the calling
\* thread and with the event's parameters, and has made all the invocations
\* when it returns; with no subscribers it returns normally having invoked
\* nothing.  While the loop runs, the invocations made so far are the first
\* idx entries of the list.
C1_PublishInvokesAllInOrder ==
    \A t \in Threads :
        LET f == th[t]
        IN  f.op = "publish" /\ f.registered /\ f.pc \in {"iter", "exit"} =>
              /\ f.ty \in DOMAIN f.gsnap
              /\ f.start = f.gsnap[f.ty]
              /\ f.pc = "exit" =>
                   /\ Outcome(f) = "ok"
                   /\ CallbacksOf(f.invoked) = f.start
              /\ f.pc = "iter" =>
                   /\ f.idx <= Len(f.start)
                   /\ CallbacksOf(f.invoked) = SubSeq(f.start, 1, f.idx)
              /\ \A i \in 1..Len(f.invoked) :
                   /\ f.invoked[i].on = t
                   /\ ~f.invoked[i].arg.positional
                   /\ f.invoked[i].arg.params = f.ev

C1_Witness ==
    \E t \in Threads :
        /\ th[t].op = "publish"
        /\ th[t].pc = "exit"
        /\ Len(th[t].start) = 2
        /\ Len(th[t].invoked) = 2
        /\ th[t].invoked[1].cb # th[t].invoked[2].cb

\* C2: in every state the registry holds a subscriber list for exactly the
\* types whose last successful (un)registration call was a registerEvent,
\* and eventTypes returns exactly that set.
C2_ListIffRegistered ==
    /\ DOMAIN subs = DOMAIN ghost
    /\ \A t \in Threads :
         th[t].op = "eventTypes" /\ th[t].pc = "exit" =>
            th[t].ret = DOMAIN th[t].gsnap

C2_Witness ==
    /\ DOMAIN subs = {"Two"}
    /\ \E t \in Threads :
         /\ th[t].op = "unregisterEvent" /\ th[t].ty = "One"
         /\ th[t].pc = "exit" /\ Outcome(th[t]) = "ok"
    /\ \E t \in Threads :
         /\ th[t].op = "eventTypes" /\ th[t].pc = "exit"
         /\ th[t].ret = {"One", "Two"}

\* C3: every subscriber list is free of duplicates and lists the subscribed
\* callbacks in the order of their successful subscribe calls; no callback
\* has two successful subscribe calls for one type without a successful
\* unsubscribe (or unregistration) between them, so of two concurrent
\* subscribe calls for the same callback at most one succeeds; and a
\* subscribe call succeeds exactly when the type is registered and the
\* callback not subscribed at the time the call reads the registry, so one
\* of the two does succeed.
C3_NoDuplicatesInOrder ==
    /\ \A ty \in DOMAIN subs :
         /\ NoDuplicates(subs[ty])
         /\ ty \in DOMAIN ghost => subs[ty] = ghost[ty]
    /\ \A ty \in DOMAIN ghost : NoDuplicates(ghost[ty])
    /\ \A t \in Threads :
         th[t].op = "subscribe" /\ th[t].pc = "exit" /\ th[t].cb \in Callbacks
         => (Outcome(th[t]) = "ok"
               <=> /\ th[t].ty \in DOMAIN th[t].gsnap
                   /\ ~Contains(th[t].gsnap[th[t].ty], th[t].cb))

C3_Witness ==
    \E t, u \in Threads :
        /\ t # u
        /\ th[t].op = "subscribe" /\ th[u].op = "subscribe"
        /\ th[t].pc = "exit" /\ th[u].pc = "exit"
        /\ th[t].ty = th[u].ty /\ th[t].cb = th[u].cb
        /\ Outcome(th[t]) = "ok"
        /\ Outcome(th[u]) = "AlreadySubscribed"
        /\ Len(subs[th[t].ty]) = 2

\* The error the Publisher's contract names for a call, from the
\* registration state the call found ("ok": no violation).
ContractResult(f) ==
    LET reg == f.ty \in DOMAIN f.gsnap
        sub == reg /\ Contains(f.gsnap[f.ty], f.cb)
    IN  IF f.op \in {"subscribe", "unsubscribe"} /\ f.cb = NotCallable
        THEN "NotCallable"
        ELSE IF f.op = "registerEvent"
        THEN (IF reg THEN "AlreadyRegistered" ELSE "ok")
        ELSE IF f.op = "eventTypes" THEN "ok"
        ELSE IF ~reg THEN "NotRegistered"
        ELSE IF f.op = "subscribe" /\ sub THEN "AlreadySubscribed"
        ELSE IF f.op = "unsubscribe" /\ ~sub THEN "NotSubscribed"
        ELSE "ok"

\* C4: every contract violation ends in the error the contract names for
\* it (already-registered, not-registered, already-subscribed,
\* not-subscribed), no violating call returns normally, and a call that
\* ends in an error has not written the registry.
C4_ViolationRaisesItsError ==
    \A t \in Threads :
        th[t].pc = "exit" =>
            /\ Outcome(th[t]) = ContractResult(th[t])
            /\ Outcome(th[t]) # "ok" => ~th[t].wrote

(***************************************************************************)
(* Claims about the dispatchers.                                           *)
(***************************************************************************)
\* The positions in a dispatcher's record of the publications of an
\* internal event, and of the executions of its callbacks.
Published(d, what) == {i \in 1..Len(exec[d]) : exec[d][i].what = what}

CallbackRuns(d) == {i \in 1..Len(exec[d]) : exec[d][i].what \notin Lifecycle}

\* The ids of the items pending in a dispatcher: in its queue or in the
\* hands of its worker.
PendingIds(d) ==
    {queue[d][i].id : i \in 1..Len(queue[d])} \cup
    (IF cur[d] = NoItem THEN {} ELSE {cur[d].id})

\* C5: a dispatcher publishes Running at most once and Exiting at most once,
\* both on its worker thread and Exiting only after Running; when join() has
\* returned on a dispatcher that was started and told to exit, exactly one
\* Running and exactly one Exiting have been published, Running first.
C5_OneRunningThenOneExiting ==
    \A d \in Dispatchers :
        LET R == Published(d, "Running")
            X == Published(d, "Exiting")
        IN  /\ Cardinality(R) <= 1
            /\ Cardinality(X) <= 1
            /\ \A i \in X : \E j \in R : j < i
            /\ \A i \in R \cup X : exec[d][i].on = d
            /\ joinSt[d] = "returned" =>
                 /\ hist[d].nexit > 0
                 /\ Cardinality(R) = 1
                 /\ Cardinality(X) = 1

C5_Witness ==
    /\ joinSt["gen"] = "returned"
    /\ hist["gen"].nexit = 1
    /\ hist["gen"].ndeliv = 0
    /\ Len(exec["gen"]) = 2
    /\ exec["gen"][1].what = "Running"
    /\ exec["gen"][2].what = "Exiting"

\* C6: every execution of a callback subscribed to an Input event of a
\* dispatcher is on that dispatcher's worker thread, never on the delivering
\* thread; an event delivered by deliverInputEvent that is still pending has
\* run nothing, and one the worker has processed has run exactly the
\* callback subscribed for its type, once, with the event's parameters.
C6_InputCallbacksOnOwnThread ==
    \A d \in Dispatchers :
        /\ \A i \in CallbackRuns(d) :
             exec[d][i].on = d /\ exec[d][i].on # MainThread
        /\ \A k \in 1..Len(hist[d].sent) :
             LET e == hist[d].sent[k]
                 runs == {i \in CallbackRuns(d) : exec[d][i].id = e.id}
             IN  /\ Cardinality(runs) = IF e.id \in PendingIds(d) THEN 0 ELSE 1
                 /\ \A i \in runs :
                      /\ exec[d][i].what = CallbackFor(d, e.type)
                      /\ exec[d][i].type = e.type
                      /\ exec[d][i].params = e.params

C6_Witness ==
    /\ Len(hist["gen"].sent) = 2
    /\ hist["gen"].sent[1].type # hist["gen"].sent[2].type
    /\ PendingIds("gen") = {}
    /\ Cardinality(CallbackRuns("gen")) = 2

\* The remote subscribers of an Output event type of dispatcher a.
RemoteSubscribersOf(a, ty) ==
    {b \in Dispatchers \ {a} : Contains(outSubs[a][ty], RemoteSubscriber(b, ty))}

C8_SmallestPriorityFifoAmongTies ==
    [][Len(got') = Len(got) + 1 =>
         LET e == got'[Len(got')]
         IN  \A i \in 1..Len(pq) :
                /\ e.priority <= pq[i].priority
                /\ pq[i].priority = e.priority => e.id <= pq[i].id]_vars

\* C9: when a dispatcher has published Exiting, no input event delivered to
\* it by a deliverInputEvent call that returned before the first
\* triggerExit call is left unprocessed.
C9_DeliveredBeforeExitIsProcessed ==
    \A d \in Dispatchers :
        Published(d, "Exiting") # {} =>
            \A i \in 1..Len(queue[d]) :
                ~(queue[d][i].kind = "Input" /\ queue[d][i].via = "deliver"
                    /\ queue[d][i].pre)

\* Once the worker has published Exiting it takes no further item from the
\* queue, and a join() called on a terminated dispatcher returns in the
\* call.
StopsAtExit ==
    [][\A d \in Dispatchers :
          /\ wpc[d] \in {"exiting", "done"} =>
               /\ wpc'[d] \in {"exiting", "done"}
               /\ cur'[d] = NoItem
               /\ Len(queue'[d]) >= Len(queue[d])
          /\ (wpc[d] = "done" /\ joinSt[d] = "none" /\ joinSt'[d] # "none") =>
               joinSt'[d] = "returned"]_vars

\* C10: once triggerExit() has been called on a started dispatcher, its
\* worker thread, scheduled fairly and running callbacks that terminate,
\* eventually publishes Exiting and terminates, and a waiting join()
\* eventually returns; after Exiting the worker takes no further item, and
\* join() on a terminated dispatcher returns in the call.
C10_ExitAlwaysLeadsToTermination ==
    /\ StopsAtExit
    /\ \A d \in Dispatchers :
         /\ (hist[d].nexit > 0 /\ wpc[d] # "new") ~> (wpc[d] = "done")
         /\ (hist[d].nexit > 0 /\ joinSt[d] = "waiting") ~>
              (joinSt[d] = "returned")

(***************************************************************************)
(* Claims about the lifecycle of a dispatcher.                             *)
(***************************************************************************)
\* C11: the lifecycle state of a dispatcher stays or moves one step forward
\* along Created, Running, Exiting, Terminated; it changes only in a step
\* of the dispatcher's worker thread; start() on a started dispatcher raises
\* the lifecycle error and changes nothing else: no worker thread is
\* launched again and Running is never published a second time.
C11_LifecycleMovesForward ==
    /\ [](\A d \in Dispatchers : Cardinality(Published(d, "Running")) <= 1)
    /\ [][\A d \in Dispatchers :
            /\ \/ dstate'[d] = dstate[d]
               \/ <<dstate[d], dstate'[d]>> \in
                    {<<"Created", "Running">>, <<"Running", "Exiting">>,
                     <<"Exiting", "Terminated">>}
            /\ dstate'[d] # dstate[d] =>
                 /\ wpc[d] \in {"launched", "process", "exiting"}
                 /\ wpc'[d] # wpc[d]
            /\ wpc[d] \notin {"new", "launched"} => wpc'[d] # "launched"
            /\ (res'[d] # res[d] /\ res'[d].op = "start") =>
                 /\ res'[d].err = "AlreadyStarted"
                 /\ res'[d].started
                 /\ UNCHANGED <<dstate, wpc, queue, cur, exec>>]_vars

C11_Witness ==
    /\ res[Lone].op = "start"
    /\ res[Lone].err = "AlreadyStarted"
    /\ dstate[Lone] = "Terminated"
    /\ Cardinality(Published(Lone, "Running")) = 1
    /\ Cardinality(Published(Lone, "Exiting")) = 1

\* C12: a deliverInputEvent call enqueues its event exactly when the
\* dispatcher is Running, and otherwise raises the lifecycle error and
\* enqueues nothing; and no deliverInputEvent call made after start() has
\* returned and before any triggerExit() call raises.
C12_DeliverSucceedsOnceStarted ==
    /\ [][\A d \in Dispatchers :
            /\ hist'[d].ndeliv # hist[d].ndeliv =>
                 /\ dstate[d] = "Running"
                 /\ Len(queue'[d]) = Len(queue[d]) + 1
            /\ (res'[d] # res[d] /\ res'[d].op = "deliverInputEvent") =>
                 /\ dstate[d] # "Running"
                 /\ res'[d].err = "NotRunning"
                 /\ UNCHANGED <<queue, hist>>]_vars
    /\ [](\A d \in Dispatchers :
            ~(res[d].op = "deliverInputEvent" /\ res[d].started /\ res[d].pre))

\* C13: every Idle event is published on the worker thread, after Running
\* and not after Exiting, in a step taken with the queue empty, idle
\* processing enabled and the dispatcher Running; and once a dispatcher is
\* started with idle processing enabled, Idle is eventually published
\* unless an item is enqueued.
C13_IdleOnlyWhileRunningAndEmpty ==
    /\ [](\A d \in Dispatchers : \A i \in Published(d, "Idle") :
            /\ exec[d][i].on = d
            /\ \E j \in Published(d, "Running") : j < i
            /\ \A j \in Published(d, "Exiting") : i < j)
    /\ [][\A d \in Dispatchers :
            Cardinality(Published(d, "Idle"))' >
              Cardinality(Published(d, "Idle")) =>
                /\ queue[d] = <<>>
                /\ idleOn[d]
                /\ dstate[d] = "Running"
                /\ UNCHANGED <<dstate, wpc, queue, cur>>]_vars
    /\ \A d \in Dispatchers :
         (idleOn[d] /\ wpc[d] # "new") ~>
            (Published(d, "Idle") # {} \/ hist[d].nseq > 0)

\* Idle published twice, then the exit.
C13_Witness ==
    /\ idleOn[Lone]
    /\ Cardinality(Published(Lone, "Idle")) = 2
    /\ hist[Lone].ndeliv = 0
    /\ dstate[Lone] = "Terminated"

(***************************************************************************)
(* Claims about calls made by callbacks.                                   *)
(***************************************************************************)
\* The calls in progress of a thread, outermost first.
FramesOf(t) == <<th[t]>> \o stack[t]

\* How many of them are inside their with-block.
Holding(t) ==
    Cardinality({i \in 1..Len(FramesOf(t)) :
                    FramesOf(t)[i].pc \in {"mutate", "iter"}})

\* C14: a call that a callback makes on the Publisher from inside publish,
\* in the publishing thread, is let into the lock its thread already holds
\* (the lock's level is the number of with-blocks the thread is in) and
\* eventually returns or raises, and the publish around it eventually
\* returns.
C14_CallbackCallsDoNotDeadlock ==
    /\ [](\A t \in Threads :
            /\ Holding(t) > 0 => lockOwner = t /\ lockCount = Holding(t)
            /\ Holding(t) = 0 => lockOwner # t)
    /\ \A t \in Threads :
         /\ (stack[t] # <<>>) ~> (stack[t] = <<>>)
         /\ (th[t].pc = "iter") ~> (th[t].pc = "idle")

\* A publish about to return whose callbacks published and unsubscribed.
C14_Witness ==
    /\ th[Caller].op = "publish"
    /\ th[Caller].pc = "exit"
    /\ Len(th[Caller].nested) = 2
    /\ th[Caller].nested[1].op = "publish"
    /\ th[Caller].nested[1].outcome = "ok"
    /\ th[Caller].nested[2].op = "unsubscribe"
    /\ th[Caller].nested[2].outcome = "ok"


(***************************************************************************)
(* Claims about event types and instances.                                 *)
(***************************************************************************)
DeclaredKeys(p) == {p[i].key : i \in 1..Len(p)}

\* The declaration is a tuple: the parameter is declared with a default.
IsPair(decl) == decl.kind = "tuple"

\* The declaration names a type.
HasType(decl) ==
    decl.kind = "type" \/ (IsPair(decl) /\ decl.items[1].kind = "type")

DeclaredType(decl) ==
    IF decl.kind = "type" THEN decl.name ELSE decl.items[1].name

\* A bare type, or a (type, default) pair whose default is of the type.
WellFormed(decl) ==
    \/ decl.kind = "type"
    \/ /\ IsPair(decl)
       /\ decl.items[1].kind = "type"
       /\ IsInstance(decl.items[2], decl.items[1].name)

\* Arguments a supply every parameter declared without a default and no
\* undeclared key, and the supplied values are of the declared types.
ValidFor(p, a) ==
    /\ \A i \in 1..Len(p) : ~IsPair(p[i].decl) => p[i].key \in DOMAIN a
    /\ DOMAIN a \subseteq DeclaredKeys(p)
    /\ \A i \in 1..Len(p) :
         p[i].key \in DOMAIN a =>
            /\ HasType(p[i].decl)
            /\ IsInstance(a[p[i].key], DeclaredType(p[i].decl))

\* C15: a construction whose arguments supply every parameter declared
\* without a default, no undeclared key, and values of the declared types
\* succeeds, and the instance holds exactly the declared keys, each with
\* the supplied value if there is one and the declared default otherwise.
C15_ValidArgumentsYieldDeclaredKeys ==
    (inst.pc = "done" /\ ValidFor(inst.parameters, inst.arguments)) =>
        /\ inst.err = NoError
        /\ DOMAIN inst.self = DeclaredKeys(inst.parameters)
        /\ \A i \in 1..Len(inst.parameters) :
             LET k == inst.parameters[i].key
             IN  inst.self[k] = IF k \in DOMAIN inst.arguments
                                THEN inst.arguments[k]
                                ELSE inst.parameters[i].decl.items[2]

\* A parameter declared without a default is absent from the arguments.
RequiredAbsent(p, a) ==
    \E i \in 1..Len(p) : ~IsPair(p[i].decl) /\ p[i].key \notin DOMAIN a

\* C16 as stated: a construction fails with the missing-argument error if
\* and only if some parameter declared without a default is absent from
\* the arguments, whatever else is wrong with them.
C16_MissingErrorIffRequiredAbsent ==
    inst.pc = "done" =>
        (inst.err.site = "missing" <=>
            RequiredAbsent(inst.parameters, inst.arguments))

\* The default a declaration names, None when it names none.
DefaultOf(decl) == IF IsPair(decl) THEN decl.items[2] ELSE None

\* Parameter i yields a value of its declared type: its declaration is
\* well formed and the supplied value, or else the default, is of the type.
Yields(p, a, i) ==
    /\ WellFormed(p[i].decl)
    /\ IF p[i].key \in DOMAIN a
       THEN IsInstance(a[p[i].key], DeclaredType(p[i].decl))
       ELSE DefaultOf(p[i].decl) # None

\* Parameter i has a well-formed declaration, is absent from the arguments
\* and has no default to fall back on: none declared, or None.
Lacks(p, a, i) ==
    /\ WellFormed(p[i].decl)
    /\ p[i].key \notin DOMAIN a
    /\ DefaultOf(p[i].decl) = None

\* C16: a construction fails with the missing-argument error if and only
\* if the first parameter, in the order of declaration, that does not
\* yield a value of its declared type is one that is absent from the
\* arguments and has no default to fall back on; the error names it.
C16_MissingErrorIffFirstFailureIsAbsence ==
    inst.pc = "done" =>
        LET p == inst.parameters
            a == inst.arguments
            first == {i \in 1..Len(p) :
                        Lacks(p, a, i) /\ \A j \in 1..(i-1) : Yields(p, a, j)}
        IN  /\ inst.err.site = "missing" <=> first # {}
            /\ \A i \in first : inst.err.key = p[i].key

\* A construction has failed for a missing argument although an earlier
\* parameter was fine, a later one has a value of the wrong type and an
\* undeclared key is supplied.
C16_Witness ==
    /\ inst.pc = "done"
    /\ inst.err.site = "missing"
    /\ Len(inst.parameters) = 2
    /\ inst.err.key = inst.parameters[1].key
    /\ Undeclared \in DOMAIN inst.arguments
    /\ inst.parameters[2].key \in DOMAIN inst.arguments
    /\ HasType(inst.parameters[2].decl)
    /\ ~IsInstance(inst.arguments[inst.parameters[2].key],
                   DeclaredType(inst.parameters[2].decl))

\* A key no parameter declares is among the arguments.
UndeclaredSupplied(p, a) == DOMAIN a \ DeclaredKeys(p) # {}

\* C17 as stated: a construction fails with the unexpected-argument error
\* if and only if some supplied key is undeclared, and none that was given
\* an undeclared key returns an instance.
C17_ExtraErrorIffUndeclaredKey ==
    inst.pc = "done" =>
        /\ inst.err.site = "extra" <=>
              UndeclaredSupplied(inst.parameters, inst.arguments)
        /\ UndeclaredSupplied(inst.parameters, inst.arguments) =>
              inst.err # NoError

\* C17: a construction fails with the unexpected-argument error if and
\* only if some supplied key is undeclared and every declared parameter
\* yields a value of its declared type; none that was given an undeclared
\* key returns an instance.
C17_ExtraErrorIffUndeclaredKeyAndParametersFine ==
    inst.pc = "done" =>
        LET p == inst.parameters
            a == inst.arguments
        IN  /\ inst.err.site = "extra" <=>
                  /\ UndeclaredSupplied(p, a)
                  /\ \A i \in 1..Len(p) : Yields(p, a, i)
            /\ UndeclaredSupplied(p, a) => inst.err # NoError

\* A construction given an undeclared key next to fine values for two
\* declared parameters has failed for the undeclared key.
C17_Witness ==
    /\ inst.pc = "done"
    /\ inst.err.site = "extra"
    /\ Len(inst.parameters) = 2
    /\ DOMAIN inst.self = DeclaredKeys(inst.parameters)
    /\ DOMAIN inst.argCopy = {Undeclared}

\* The rows of the last comparison.
Compared == DOMAIN cmp.table

PriorityLe(i, j) == cmp.held[i].priority <= cmp.held[j].priority

\* C18: between any two instances, of whatever types and payloads, each
\* operator gives what the same operator gives on their priorities, and
\* <= is reflexive, transitive and total.
C18_ComparisonByPriorityAlone ==
    /\ \A i, j \in Compared :
         LET r == cmp.table[i][j]
             x == cmp.held[i].priority
             y == cmp.held[j].priority
         IN  /\ r.lt <=> x < y
             /\ r.eq <=> x = y
             /\ r.gt <=> x > y
             /\ r.le <=> x <= y
             /\ r.ge <=> x >= y
    /\ \A i \in Compared : cmp.table[i][i].le
    /\ \A i, j \in Compared : cmp.table[i][j].le \/ cmp.table[j][i].le
    /\ \A i, j, k \in Compared :
         cmp.table[i][j].le /\ cmp.table[j][k].le => cmp.table[i][k].le

\* Instances of different types with different payloads have compared
\* equal, and one of them less than an instance of a third type.
C18_Witness ==
    /\ cmp.held # <<>>
    /\ cmp.held[1].type # cmp.held[2].type
    /\ cmp.held[1].id # cmp.held[2].id
    /\ cmp.table[1][2].eq
    /\ cmp.table[2][3].lt
    /\ ~cmp.table[3][1].le

\* The EventType calls that have ended by storing their declarations under
\* the full name n, by their place in the order of ending.
Stored(n) ==
    {i \in 1..Len(defined) :
        defined[i].name = n /\ defined[i].outcome = "ok"}

\* C19: every registered name maps to the declarations of the one call
\* that stored them, and only names so stored are registered; a call that
\* finds its name registered fails after such a call and never before one;
\* no step changes or removes a registered name's declarations, and a
\* failing call changes nothing.
C19_FirstDefinitionStays ==
    /\ [](/\ \A n \in DOMAIN instances :
               /\ Cardinality(Stored(n)) = 1
               /\ \A i \in Stored(n) : instances[n] = defined[i].parameters
          /\ \A i \in 1..Len(defined) :
               /\ defined[i].outcome = "ok" =>
                    defined[i].name \in DOMAIN instances
               /\ defined[i].outcome = "exists" =>
                    \E j \in 1..(i-1) : j \in Stored(defined[i].name))
    /\ [][/\ \A n \in DOMAIN instances :
               n \in DOMAIN instances' /\ instances'[n] = instances[n]
          /\ (Len(defined') > Len(defined)
                /\ defined'[Len(defined')].outcome # "ok")
               => instances' = instances]_vars

\* Two calls naming the same class, in progress at the same time in two
\* threads with different declarations, have ended: one stored, one failed.
C19_Witness ==
    \E i, j \in 1..Len(defined) :
        /\ i < j
        /\ defined[i].name = defined[j].name
        /\ defined[i].thread # defined[j].thread
        /\ defined[i].parameters # defined[j].parameters
        /\ defined[i].conc /\ defined[j].conc
        /\ defined[i].outcome = "ok"
        /\ defined[j].outcome = "exists"
        /\ instances[defined[i].name] = defined[i].parameters

\* C20: EventType checks the declarations: no name is registered with a
\* declaration that is not well formed, no call that ended by storing had
\* one, and no construction fails for a declaration.
C20_DeclarationsCheckedAtDefinition ==
    /\ \A n \in DOMAIN instances :
         \A i \in 1..Len(instances[n]) : WellFormed(instances[n][i].decl)
    /\ \A k \in 1..Len(defined) :
         defined[k].outcome = "ok" =>
            \A i \in 1..Len(defined[k].parameters) :
                WellFormed(defined[k].parameters[i].decl)
    /\ inst.err.site # "declaration"

(***************************************************************************)
(* Claims about the errors.                                                *)
(***************************************************************************)
\* The outcomes of Publisher calls that are entries of the error taxonomy.
ProtocolErrors ==
    {"NotRegistered", "AlreadyRegistered", "AlreadySubscribed",
     "NotSubscribed", "NotCallable"}

\* The raise statements of a construction about its arguments.
ConstructionErrors == {"missing", "mismatch", "extra"}

\* C21: an error a caller receives is of a kind of its own: a Publisher
\* call that fails with one entry of the taxonomy raises a class that no
\* other entry raises, and so does a construction that fails for a missing
\* or an unexpected argument.
C21_EachErrorItsOwnKind ==
    /\ \A t \in Threads :
         th[t].result \in ProtocolErrors =>
            \A o \in ProtocolErrors \ {th[t].result} :
                ExceptionClass(o) # ExceptionClass(th[t].result)
    /\ inst.err.site \in {"missing", "extra"} =>
         \A s \in ConstructionErrors \ {inst.err.site} :
             ExceptionAt(s) # inst.err.exc

(***************************************************************************)
(* Claims about internal events.                                           *)
(***************************************************************************)
\* C22: an internal publish runs the callbacks subscribed to the type in
\* the internal table, in their order, in the thread that called it and
\* during the call, and leaves the queue alone: the executions of the
\* callbacks of the Internal types are in the client's thread with the
\* published arguments, those of the lifecycle events in the worker's;
\* the callbacks of the first of two publishes run before those of the
\* second.
C22_InternalPublishRunsInCaller ==
    /\ [](\A i \in 1..Len(exec[Lone]) :
            LET e == exec[Lone][i]
            IN  /\ e.type \in InternalTypes =>
                     e.on = MainThread /\ e.params = InternalArgs(e.type)
                /\ e.type \in Lifecycle => e.on = Lone)
    /\ [](\A i, j \in 1..Len(exec[Lone]) :
            (exec[Lone][i].type = "Internal.One"
               /\ exec[Lone][j].type = "Internal.Two") => i < j)
    /\ [][itrig'[Lone] # itrig[Lone] =>
            LET ty == IF itrig[Lone] = "none" THEN "Internal.One"
                      ELSE "Internal.Two"
                l == InternalSubscribers(Lone, ty)
                n == Len(exec[Lone])
            IN  /\ Len(exec'[Lone]) = n + Len(l)
                /\ SubSeq(exec'[Lone], 1, n) = exec[Lone]
                /\ \A k \in 1..Len(l) :
                     exec'[Lone][n + k] =
                        Entry(l[k], ty, InternalArgs(ty), MainThread, 0)
                /\ queue' = queue]_vars

\* Both internal events have been published while input events waited in
\* the queue of the running dispatcher, and both callbacks have run.
C22_Witness ==
    /\ itrig[Lone] = "done"
    /\ dstate[Lone] = "Running"
    /\ queue[Lone] # <<>>
    /\ \E i, j \in 1..Len(exec[Lone]) :
         /\ i < j
         /\ exec[Lone][i].what = "internalEventOneCB"
         /\ exec[Lone][j].what = "internalEventTwoCB"
         /\ exec[Lone][i].on = MainThread
         /\ exec[Lone][j].on = MainThread

(***************************************************************************)
(* More claims about the Publisher.                                        *)
(***************************************************************************)
\* Thread t executes the write of its call `op` in this step.
WritesNow(t, op) ==
    /\ th[t].op = op
    /\ th[t].pc = "mutate"
    /\ Writes(th[t])
    /\ th'[t].pc = "exit"

\* C23: the write of unregisterEvent(T) on a registered type takes T and
\* its subscriber list out of the registry and leaves every other type
\* with its list; the write of registerEvent(T) gives T an empty list and
\* leaves the others; and a publish of T invokes no callback but those
\* subscribed since the last registration of T.
C23_UnregisterRemovesOnlyItsType ==
    /\ [][\A t \in Threads :
            /\ WritesNow(t, "unregisterEvent") =>
                 /\ th'[t].wrote
                 /\ DOMAIN subs' = DOMAIN subs \ {th[t].ty}
                 /\ \A ty \in DOMAIN subs' : subs'[ty] = subs[ty]
            /\ WritesNow(t, "registerEvent") =>
                 /\ th'[t].wrote
                 /\ DOMAIN subs' = DOMAIN subs \cup {th[t].ty}
                 /\ subs'[th[t].ty] = <<>>
                 /\ \A ty \in DOMAIN subs : subs'[ty] = subs[ty]]_vars
    /\ [](\A t \in Threads :
            th[t].op = "publish" /\ th[t].registered =>
               \A i \in 1..Len(th[t].invoked) :
                  /\ th[t].ty \in DOMAIN th[t].gsnap
                  /\ Contains(th[t].gsnap[th[t].ty], th[t].invoked[i].cb))

\* unregisterEvent has removed a type that had a subscriber while the
\* other type keeps its own.
C23_Witness ==
    \E t \in Threads :
        /\ th[t].op = "unregisterEvent"
        /\ th[t].pc = "exit"
        /\ th[t].wrote
        /\ th[t].gsnap[th[t].ty] # <<>>
        /\ th[t].ty \notin DOMAIN subs
        /\ \E ty \in DOMAIN subs : subs[ty] # <<>>

\* The number of invocations of callback cb among inv.
TimesInvoked(inv, cb) == Cardinality({i \in 1..Len(inv) : inv[i].cb = cb})

\* C24: when the callbacks of a publish have called nothing but subscribe
\* and unsubscribe, every callback that was in the list when the publish
\* started and is in it when the publish returns has been invoked exactly
\* once by that publish.
C24_RemainingSubscribersInvokedOnce ==
    \A t \in Threads :
        LET f == th[t]
        IN  (/\ f.op = "publish" /\ f.pc = "exit" /\ f.registered
             /\ stack[t] = <<>>
             /\ f.nested # <<>>
             /\ \A k \in 1..Len(f.nested) :
                   f.nested[k].op \in {"subscribe", "unsubscribe"})
            => \A cb \in Range(f.start) :
                  (f.ty \in DOMAIN subs /\ Contains(subs[f.ty], cb))
                     => TimesInvoked(f.invoked, cb) = 1

(***************************************************************************)
(* Claims about callbacks that raise.                                      *)
(***************************************************************************)
\* Thread t has left the loop of its publish on an exception of a callback.
CallbackRaised(t) ==
    th[t].op = "publish" /\ th[t].pc = "exit" /\ th[t].err = "CallbackError"

\* C26: when a callback raises during publish, the error is the outcome of
\* the publish; the callbacks invoked are the subscribers up to and
\* including the one that raised, none after it; the step leaves the
\* registry as it was and gives the lock back, and the lock is only ever
\* held by a thread inside a critical section, so that the next call of
\* any thread gets in.
C26_CallbackErrorPropagates ==
    /\ [](\A t \in Threads : CallbackRaised(t) =>
            /\ Outcome(th[t]) = "CallbackError"
            /\ Len(th[t].invoked) = th[t].idx
            /\ th[t].idx <= Len(th[t].start)
            /\ CallbacksOf(th[t].invoked)
                  = SubSeq(th[t].start, 1, th[t].idx)
            /\ lockOwner # t)
    /\ [](lockOwner # NoThread => th[lockOwner].pc \in {"mutate", "iter"})
    /\ [](lockOwner = NoThread <=> lockCount = 0)
    /\ [][\A t \in Threads :
            /\ (th[t].pc = "iter" /\ CallbackRaised(t)') =>
                  /\ subs' = subs /\ ghost' = ghost
                  /\ lockOwner' = NoThread /\ lockCount' = 0
                  /\ Len(th'[t].invoked) = Len(th[t].invoked) + 1
            /\ (CallbackRaised(t) /\ th'[t].pc = "idle") =>
                  /\ th'[t].result = "CallbackError"
                  /\ subs' = subs]_vars

\* A publish with two subscribers has returned the error of the first,
\* the second never invoked, and the other thread is inside a call that
\* it entered afterwards.
C26_Witness ==
    \E t, u \in Threads :
        /\ t # u
        /\ th[t].pc = "idle" /\ th[t].op = "publish"
        /\ th[t].result = "CallbackError"
        /\ lockOwner = u /\ th[u].pc = "iter" /\ th[u].ty \in DOMAIN subs
        /\ Len(subs[th[u].ty]) = 2 /\ th[u].idx = 1

(***************************************************************************)
(* Claims about two Publishers.                                            *)
(***************************************************************************)
\* Thread t is inside a publish that its client code has called.
InPublish(t) == pstack[t] # <<>>

\* Thread t waits for the RLock of a Publisher that another thread holds.
WaitsForOther(t) ==
    /\ InPublish(t)
    /\ Innermost(pstack[t]).pc = "acquire"
    /\ ~PLockGuard(plock[Innermost(pstack[t]).pub], t)

\* Each thread holds the lock of the Publisher it published on and waits
\* for the lock the other thread holds.
Crossed == \A t \in Threads : WaitsForOther(t) /\ Len(pstack[t]) = 2

\* C25, as stated: a publish of a Ping, whose subscriber publishes on the
\* other Publisher, eventually returns, whatever the other thread
\* publishes meanwhile.
C25_CrossPublishesReturn ==
    \A t \in Threads :
        (InPublish(t) /\ pstack[t][1].ty = "Ping") ~> ~InPublish(t)

\* C25, amended: a publish eventually returns unless the two threads have
\* crossed, each holding the lock of its own Publisher and waiting for the
\* other's; threads cross only when both publish a Ping, on different
\* Publishers, and crossed threads stay crossed.
C25_ReturnsUnlessCrossed ==
    /\ \A t \in Threads : InPublish(t) ~> (~InPublish(t) \/ Crossed)
    /\ [](Crossed =>
            /\ \A t \in Threads : pstack[t][1].ty = "Ping"
            /\ \A t, u \in Threads :
                  t # u => pstack[t][1].pub # pstack[u][1].pub)
    /\ []((\E t \in Threads : WaitsForOther(t) /\ ~Crossed) =>
            \E u \in Threads : InPublish(u) /\ ~WaitsForOther(u))
    /\ [][Crossed => Crossed']_vars

\* Each thread has made one publish, a Ping on a Publisher of its own,
\* the two calls were in progress at the same time, and both returned.
C25_Witness ==
    /\ \A t \in Threads :
          /\ npub[t] = 1 /\ ~InPublish(t)
          /\ plast[t].ty = "Ping" /\ plast[t].overlapped
    /\ \A t, u \in Threads : t # u => plast[t].pub # plast[u].pub

=============================================================================
